---- MODULE Spec2Model ----
(***************************************************************************)
(* Lead-generation backend (backend/app): the serp_urls / serp_leads       *)
(* extraction pipeline and the merged_results merge engine.                *)
(*                                                                         *)
(* Tables are sequences of rows in insertion order; every row carries its  *)
(* primary key in the field id. Text values are sequences of one-character *)
(* strings so that strip / normalisation are computed, not assumed.        *)
(* project_id_seq is the next value of the serial key of projects (a key   *)
(* is never handed out twice).                                             *)
(* running holds the calls in flight where calls overlap; it is empty      *)
(* where every call is one step.                                           *)
(***************************************************************************)
EXTENDS Integers, Sequences, FiniteSets, TLC

VARIABLES serp_urls, serp_leads, serp_leads_aggregated, merged_results,
          enrichment_columns, datasets, last, projects, serp_queries, running,
          project_id_seq

vars == <<serp_urls, serp_leads, serp_leads_aggregated, merged_results,
          enrichment_columns, datasets, last, projects, serp_queries, running,
          project_id_seq>>

(***************************************************************************)
(* Bounds of the model                                                     *)
(***************************************************************************)
MaxLeadRows == 3

MaxBatch == 2

MaxDatasets == 2

ProjectIds == {1, 2}

Links == {"l1", "l2"}

NULL == "NULL"

\* the NULL of the integer column merged_results.serp_count
NoCount == 0 - 1

(***************************************************************************)
(* Text helpers                                                            *)
(***************************************************************************)
Whitespace == {" "}

UpperChars ==
    <<"A", "B", "C", "D", "E", "F", "G", "H", "I", "J", "K", "L", "M",
      "N", "O", "P", "Q", "R", "S", "T", "U", "V", "W", "X", "Y", "Z">>

LowerChars ==
    <<"a", "b", "c", "d", "e", "f", "g", "h", "i", "j", "k", "l", "m",
      "n", "o", "p", "q", "r", "s", "t", "u", "v", "w", "x", "y", "z">>

Digits == {"0", "1", "2", "3", "4", "5", "6", "7", "8", "9"}

LowerAlnum == {LowerChars[i] : i \in 1..Len(LowerChars)} \cup Digits

RECURSIVE LStrip(_, _)
LStrip(s, cs) ==
    IF s # <<>> /\ Head(s) \in cs THEN LStrip(Tail(s), cs) ELSE s

RECURSIVE RStrip(_, _)
RStrip(s, cs) ==
    IF s # <<>> /\ s[Len(s)] \in cs THEN RStrip(SubSeq(s, 1, Len(s) - 1), cs) ELSE s

\* str.strip(chars): drop leading and trailing characters of the set
Strip(s, cs) == RStrip(LStrip(s, cs), cs)

\* str.lower() on one character
LowerChar(c) ==
    IF \E i \in 1..Len(UpperChars) : UpperChars[i] = c
    THEN LowerChars[CHOOSE i \in 1..Len(UpperChars) : UpperChars[i] = c]
    ELSE c

\* the text constants used as inputs
sEmpty == <<>>

sBrackets == <<"[", "]">>

sNone == <<"N", "o", "n", "e">>

sAcme == <<"A", "c", "m", "e">>

sACME == <<"A", "C", "M", "E">>

sAcmeCorp == <<"A", "c", "m", "e", " ", "C", "o", "r", "p">>

sAcmeCorpSp == <<"A", "c", "m", "e", " ", "C", "o", "r", "p", " ">>

sQuotedOrica == <<"'", "O", "r", "i", "c", "a", "'">>

sOrica == <<"O", "r", "i", "c", "a">>

sLtd == <<"L", "t", "d">>

\* "e-acute" and "zwsp" stand for the single characters U+00E9 and U+200B
sCafe == <<"C", "a", "f", "e-acute">>

(***************************************************************************)
(* utils/lead_utils.py                                                     *)
(***************************************************************************)
LEGAL_SUFFIXES ==
    { <<"p","t","y">>, <<"l","t","d">>, <<"l","i","m","i","t","e","d">>,
      <<"i","n","c">>, <<"c","o","r","p">>,
      <<"c","o","r","p","o","r","a","t","i","o","n">>, <<"c","o">>,
      <<"g","m","b","h">>, <<"l","l","c">>, <<"p","l","c">>, <<"s","a">>,
      <<"b","v">>, <<"a","g">>, <<"k","g">>, <<"s","r","l">>, <<"s","p","a">>,
      <<"o","y">>, <<"a","b">> }

GENERIC_TERMS ==
    { <<"c","o","m","p","a","n","y">>, <<"c","o","m","p","a","n","i","e","s">>,
      <<"h","o","l","d","i","n","g">>, <<"h","o","l","d","i","n","g","s">>,
      <<"i","n","t","e","r","n","a","t","i","o","n","a","l">> }

\* unicodedata.normalize("NFKD", c).encode("ASCII", "ignore"): an accented
\* letter keeps its base letter, any other non-ASCII character is dropped
AsciiFold(c) ==
    IF c = "e-acute" THEN <<"e">>
    ELSE IF c = "zwsp" THEN <<>>
    ELSE <<c>>

RECURSIVE FoldAll(_)
FoldAll(s) == IF s = <<>> THEN <<>> ELSE AsciiFold(Head(s)) \o FoldAll(Tail(s))

\* variant: the case is kept
KeepCase(s) == s

\* name.lower()
LowerAll(s) == [i \in 1..Len(s) |-> LowerChar(s[i])]

\* re.sub(r"[^a-z0-9\s]", " ", name)
PunctToSpace(s) ==
    [i \in 1..Len(s) |-> IF s[i] \in LowerAlnum \cup Whitespace THEN s[i] ELSE " "]

\* variant: the pattern is anchored at the end of the name, so that only a
\* last word is removed
ReplaceLastWord(s, word, stop) ==
    LET t == RStrip(s, Whitespace)
        k == CHOOSE i \in 0..Len(t) :
                /\ i = 0 \/ t[i] \in Whitespace
                /\ \A j \in (i + 1)..Len(t) : t[j] \notin Whitespace
    IN  IF SubSeq(t, k + 1, Len(t)) \in stop
        THEN SubSeq(t, 1, k) \o <<" ">>
        ELSE s

\* re.sub(r"\b(?:w1|w2|...)\b", " ", name) on text of [a-z0-9\s] only: every
\* maximal alphanumeric run that is one of the words becomes one space
RECURSIVE ReplaceWords(_, _, _)
ReplaceWords(s, word, stop) ==
    IF s = <<>>
    THEN IF word \in stop THEN <<" ">> ELSE word
    ELSE IF Head(s) \in Whitespace
         THEN (IF word \in stop THEN <<" ">> ELSE word)
              \o <<Head(s)>> \o ReplaceWords(Tail(s), <<>>, stop)
         ELSE ReplaceWords(Tail(s), Append(word, Head(s)), stop)

\* re.sub(r"\s+", " ", name).strip()
RECURSIVE CollapseWs(_)
CollapseWs(s) ==
    IF s = <<>> THEN <<>>
    ELSE IF Head(s) \in Whitespace
         THEN <<" ">> \o CollapseWs(LStrip(s, Whitespace))
         ELSE <<Head(s)>> \o CollapseWs(Tail(s))

CollapseAndStrip(s) == Strip(CollapseWs(s), Whitespace)

normalize_lead_name(name) ==
    IF name = <<>> THEN <<>>
    ELSE LET n1 == FoldAll(name)
             n2 == LowerAll(n1)
             n3 == PunctToSpace(n2)
             n4 == ReplaceWords(n3, <<>>, LEGAL_SUFFIXES)
             n5 == ReplaceWords(n4, <<>>, GENERIC_TERMS)
             n6 == CollapseAndStrip(n5)
             n7 == SelectSeq(n6, LAMBDA c : c # "zwsp")
         IN  Strip(n7, Whitespace)

(***************************************************************************)
(* Table helpers                                                           *)
(***************************************************************************)
NextId(T) == IF T = <<>> THEN 1 ELSE T[Len(T)].id + 1

RowIds(T) == {T[i].id : i \in 1..Len(T)}

RowOf(T, id) == T[CHOOSE i \in 1..Len(T) : T[i].id = id]

Rows(T) == {T[i] : i \in 1..Len(T)}

Range(f) == {f[x] : x \in DOMAIN f}

\* a row of projects; the name is unique
Project(id, name) == [id |-> id, project_name |-> name]

ProjectNames == {"n1", "n2"}

TwoProjects == <<Project(1, "n1"), Project(2, "n2")>>

\* session.query(Project).filter(Project.id == project_id).first() finds a row
ExistingProjects == {projects[i].id : i \in 1..Len(projects)}

(***************************************************************************)
(* URL Resolver: LeadsSerpService._generate_and_add_urls_to_table          *)
(***************************************************************************)
Titles == {"t1", "t2"}

Snippets == {"s1", "s2"}

Queries == {"q1", "q2"}

SerpResult(q, t, l, sn) == [query |-> q, title |-> t, link |-> l, snippet |-> sn]

\* entries of all_urls, as collected from the search provider
SerpResults ==
    { SerpResult("q1", "t1", "l1", "s1"), SerpResult("q2", "t2", "l1", "s2"),
      SerpResult("q1", "t1", "l2", "s1") }

\* the row INSERT creates: status takes the column default, website_scraped is NULL
NewSerpUrl(T, p, r) ==
    [id |-> NextId(T), project_id |-> p, query |-> r.query, title |-> r.title,
     link |-> r.link, snippet |-> r.snippet, website_scraped |-> NULL,
     status |-> "unprocessed"]

\* variant: the conflicting row is replaced as a fresh insert would write it
UpsertConflictReplace(row, r) ==
    [row EXCEPT !.title = r.title, !.snippet = r.snippet,
                !.status = "unprocessed", !.website_scraped = NULL]

\* ON CONFLICT (link) DO UPDATE SET title = excluded.title, snippet = excluded.snippet
UpsertConflictRow(row, r) ==
    [row EXCEPT !.title = r.title, !.snippet = r.snippet]

\* variant: the conflict key is (project_id, link), a link is unique per project
UpsertOnePerProject(T, p, r) ==
    IF \E i \in 1..Len(T) : T[i].link = r.link /\ T[i].project_id = p
    THEN [i \in 1..Len(T) |->
            IF T[i].link = r.link /\ T[i].project_id = p
            THEN UpsertConflictRow(T[i], r) ELSE T[i]]
    ELSE Append(T, NewSerpUrl(T, p, r))

UpsertOne(T, p, r) ==
    IF \E i \in 1..Len(T) : T[i].link = r.link
    THEN [i \in 1..Len(T) |->
            IF T[i].link = r.link THEN UpsertConflictRow(T[i], r) ELSE T[i]]
    ELSE Append(T, NewSerpUrl(T, p, r))

RECURSIVE UpsertAll(_, _, _)
UpsertAll(T, p, batch) ==
    IF batch = <<>> THEN T
    ELSE UpsertAll(UpsertOne(T, p, Head(batch)), p, Tail(batch))

\* PostgreSQL refuses an INSERT ... ON CONFLICT DO UPDATE whose VALUES name the
\* same conflict key twice (the command cannot affect a row a second time)
BatchHasDuplicateLink(batch) ==
    \E i, j \in 1..Len(batch) : i # j /\ batch[i].link = batch[j].link

NoLast ==
    [op |-> "none", p |-> 0, ok |-> TRUE, batch |-> <<>>, sel |-> <<>>,
     outs |-> <<>>, n0 |-> 0, res |-> <<>>, rep |-> 0, col |-> <<>>, b |-> 0]

\* serp_urls.project_id REFERENCES projects (id): a row inserted for a project
\* that does not exist is refused; a conflicting row is only updated
ForeignKeyViolation(T, p, batch) ==
    /\ p \notin ExistingProjects
    /\ \E i \in 1..Len(batch) : \A j \in 1..Len(T) : T[j].link # batch[i].link

GenerateAndAddUrls(p, batch) ==
    /\ IF BatchHasDuplicateLink(batch) \/ ForeignKeyViolation(serp_urls, p, batch)
       THEN /\ UNCHANGED serp_urls
            /\ last' = [NoLast EXCEPT !.op = "resolve", !.p = p, !.ok = FALSE,
                                      !.batch = batch]
       ELSE /\ serp_urls' = UpsertAll(serp_urls, p, batch)
            /\ last' = [NoLast EXCEPT !.op = "resolve", !.p = p, !.batch = batch]
    /\ UNCHANGED <<serp_leads, serp_leads_aggregated, merged_results,
                   enrichment_columns, datasets>>
    /\ UNCHANGED <<projects, serp_queries, running, project_id_seq>>


(***************************************************************************)
(* Lead Extraction: LeadsSerpService.extract_and_add_leads_to_table        *)
(***************************************************************************)
\* lead.strip().strip('[]').strip("'").strip('"')
CleanLead(lead) ==
    Strip(Strip(Strip(Strip(lead, Whitespace), {"[", "]"}), {"'"}), {"\""})

\* variant: every cleaned entry is kept
KeepAny(clean_lead) == TRUE

\* clean_lead and clean_lead not in ['', '[]', 'None', 'null']
KeepLead(clean_lead) ==
    /\ clean_lead # <<>>
    /\ clean_lead \notin {<<>>, sBrackets, sNone, <<"n", "u", "l", "l">>}

RECURSIVE CleanLeads(_)
CleanLeads(leads) ==
    IF leads = <<>> THEN <<>>
    ELSE (IF KeepLead(CleanLead(Head(leads))) THEN <<CleanLead(Head(leads))>> ELSE <<>>)
         \o CleanLeads(Tail(leads))

\* what the reasoning step hands back for one URL, and where handling it fails:
\*   fault "extract"    _lead_extractor raises
\*   fault "unexpected" an exception outside the two inner try blocks
\*   fault "save"       the insert loop raises after k rows were added
\*   fault "none"       no exception
\* islist = FALSE stands for a final output that is not a list (None)
Outcome(f, il, ls, sc, k) ==
    [fault |-> f, islist |-> il, leads |-> ls, scraped |-> sc, k |-> k]

Outcomes ==
    { Outcome("extract", TRUE, <<>>, NULL, 0),
      Outcome("unexpected", TRUE, <<sAcme>>, "page", 0),
      Outcome("none", FALSE, <<>>, NULL, 0),
      Outcome("none", TRUE, <<>>, "page", 0),
      Outcome("none", TRUE, <<sBrackets, sNone>>, "", 0),
      Outcome("none", TRUE, <<sQuotedOrica>>, NULL, 0),
      Outcome("none", TRUE, <<sAcmeCorp, sBrackets, sEmpty, sAcmeCorpSp>>, "page", 0),
      Outcome("save", TRUE, <<sAcme, sACME>>, "page", 1) }

\* the outcomes used where the URL store, not the extraction, is under study
FewOutcomes ==
    { Outcome("extract", TRUE, <<>>, NULL, 0),
      Outcome("none", TRUE, <<>>, "page", 0),
      Outcome("none", TRUE, <<sQuotedOrica>>, NULL, 0) }

NewSerpLead(T, p, url_id, lead) ==
    [id |-> NextId(T), project_id |-> p, serp_url_id |-> url_id, lead |-> lead]

\* variant: a name already added for the URL is not added again
RECURSIVE AddLeadsDistinct(_, _, _, _)
AddLeadsDistinct(T, p, url_id, leads) ==
    IF leads = <<>> THEN T
    ELSE IF \E i \in 1..Len(T) : T[i].serp_url_id = url_id /\ T[i].lead = Head(leads)
         THEN AddLeadsDistinct(T, p, url_id, Tail(leads))
         ELSE AddLeadsDistinct(Append(T, NewSerpLead(T, p, url_id, Head(leads))), p,
                               url_id, Tail(leads))

RECURSIVE AddLeads(_, _, _, _)
AddLeads(T, p, url_id, leads) ==
    IF leads = <<>> THEN T
    ELSE AddLeads(Append(T, NewSerpLead(T, p, url_id, Head(leads))), p, url_id,
                  Tail(leads))

SetUrl(T, url_id, st, sc) ==
    [i \in 1..Len(T) |->
        IF T[i].id = url_id THEN [T[i] EXCEPT !.status = st, !.website_scraped = sc]
        ELSE T[i]]

\* variant: the except branch leaves the scraped text as it was
OnErrorKeepText(se, url_id) ==
    [se EXCEPT !.urls = [i \in 1..Len(se.urls) |->
                            IF se.urls[i].id = url_id
                            THEN [se.urls[i] EXCEPT !.status = "failed"]
                            ELSE se.urls[i]],
               !.failed = @ + 1]

\* except branch of the call to _lead_extractor, and the outer except branch:
\* status failed, scraped text cleared, nothing added
OnError(se, url_id) ==
    [se EXCEPT !.urls = SetUrl(se.urls, url_id, "failed", NULL),
               !.failed = @ + 1]

\* leads found: processed, one SerpLead per cleaned name
OnLeads(se, p, url_id, leads, scraped) ==
    [se EXCEPT !.urls = SetUrl(se.urls, url_id, "processed", scraped),
               !.leads = AddLeads(se.leads, p, url_id, leads),
               !.processed = @ + 1,
               !.new_leads = @ + Len(leads)]

\* the insert loop raises after k rows were added to the session: the rows stay
\* pending, the scraped text stays, the status is overwritten with failed
OnSaveError(se, p, url_id, leads, scraped, k) ==
    [se EXCEPT !.urls = SetUrl(se.urls, url_id, "failed", scraped),
               !.leads = AddLeads(se.leads, p, url_id, SubSeq(leads, 1, k)),
               !.processed = @ + 1,
               !.failed = @ + 1,
               !.new_leads = @ + k]

\* no leads found: skip
OnNoLeads(se, url_id, scraped) ==
    [se EXCEPT !.urls = SetUrl(se.urls, url_id, "skip", scraped),
               !.skipped = @ + 1]

\* one iteration of the per-URL loop on the session state
\* se = [urls, leads, processed, skipped, failed, new_leads]
HandleUrl(se, p, url_id, o) ==
    IF o.fault \in {"extract", "unexpected"}
    THEN OnError(se, url_id)
    ELSE LET leads == IF o.islist /\ o.leads # <<>> THEN CleanLeads(o.leads) ELSE <<>>
         IN  IF o.islist /\ Len(leads) > 0
             THEN IF o.fault = "save" /\ o.k < Len(leads)
                  THEN OnSaveError(se, p, url_id, leads, o.scraped, o.k)
                  ELSE OnLeads(se, p, url_id, leads, o.scraped)
             ELSE OnNoLeads(se, url_id, o.scraped)

\* variant: the first failing URL ends the loop
RECURSIVE RunLoopAbort(_, _, _, _)
RunLoopAbort(se, p, sel, outs) ==
    IF sel = <<>> THEN se
    ELSE IF outs[Head(sel)].fault # "none"
         THEN HandleUrl(se, p, Head(sel), outs[Head(sel)])
         ELSE RunLoopAbort(HandleUrl(se, p, Head(sel), outs[Head(sel)]), p, Tail(sel),
                           outs)

RECURSIVE RunLoop(_, _, _, _)
RunLoop(se, p, sel, outs) ==
    IF sel = <<>> THEN se
    ELSE RunLoop(HandleUrl(se, p, Head(sel), outs[Head(sel)]), p, Tail(sel), outs)

EligibleStatuses == {"unprocessed", "failed"}

\* variant: the status filter is missing
IsSelectedAnyStatus(row, p) == row.project_id = p

\* variant: only unprocessed URLs are selected
IsSelectedUnprocessed(row, p) == row.project_id = p /\ row.status = "unprocessed"

\* session.query(SerpUrl).filter(project_id == p, status.in_([...])).all()
IsSelected(row, p) == row.project_id = p /\ row.status \in EligibleStatuses

RECURSIVE SelectIds(_, _)
SelectIds(T, p) ==
    IF T = <<>> THEN <<>>
    ELSE (IF IsSelected(Head(T), p) THEN <<Head(T).id>> ELSE <<>>)
         \o SelectIds(Tail(T), p)

\* variant: the URLs attempted are reported as the URLs processed
RunResultProcessed(se, n) ==
    [urls_processed |-> se.processed, urls_skipped |-> se.skipped,
     urls_failed |-> se.failed, total_urls_attempted |-> se.processed,
     new_leads_extracted |-> se.new_leads]

RunResult(se, n) ==
    [urls_processed |-> se.processed, urls_skipped |-> se.skipped,
     urls_failed |-> se.failed, total_urls_attempted |-> n,
     new_leads_extracted |-> se.new_leads]

\* a run that reaches its final session.commit(), which succeeds
ExtractAndAddLeads(p, outs) ==
    LET sel == SelectIds(serp_urls, p)
        se0 == [urls |-> serp_urls, leads |-> serp_leads, processed |-> 0,
                skipped |-> 0, failed |-> 0, new_leads |-> 0]
        se  == RunLoop(se0, p, sel, outs)
    IN  /\ DOMAIN outs = Range(sel)
        /\ Len(se.leads) <= MaxLeadRows
        /\ IF sel = <<>>
           THEN /\ UNCHANGED <<serp_urls, serp_leads>>
                /\ last' = [NoLast EXCEPT !.op = "extract", !.p = p,
                                          !.n0 = Len(serp_leads),
                                          !.res = RunResult(se0, 0)]
           ELSE /\ serp_urls' = se.urls
                /\ serp_leads' = se.leads
                /\ last' = [NoLast EXCEPT !.op = "extract", !.p = p, !.sel = sel,
                                          !.outs = outs, !.n0 = Len(serp_leads),
                                          !.res = RunResult(se, Len(sel))]
        /\ UNCHANGED <<serp_leads_aggregated, merged_results, enrichment_columns,
                       datasets>>
        /\ UNCHANGED <<projects, serp_queries, running, project_id_seq>>

\* a run whose session.commit() raises: the session is closed without a commit,
\* the pending changes are discarded and the exception is re-raised
ExtractCommitFails(p) ==
    /\ SelectIds(serp_urls, p) # <<>>
    /\ last' = [NoLast EXCEPT !.op = "extract", !.p = p, !.ok = FALSE,
                              !.sel = SelectIds(serp_urls, p),
                              !.n0 = Len(serp_leads)]
    /\ UNCHANGED <<serp_urls, serp_leads, serp_leads_aggregated, merged_results,
                   enrichment_columns, datasets>>
    /\ UNCHANGED <<projects, serp_queries, running, project_id_seq>>

OutcomeMaps(p, O) == [Range(SelectIds(serp_urls, p)) -> O]

(***************************************************************************)
(* Specification of the URL store and the extraction runs                  *)
(***************************************************************************)
\* the store at the start of every study but the last: the two projects have
\* been created and no other row exists
Init ==
    /\ serp_urls = <<>>
    /\ serp_leads = <<>>
    /\ serp_leads_aggregated = <<>>
    /\ merged_results = <<>>
    /\ enrichment_columns = {}
    /\ datasets = <<>>
    /\ last = NoLast
    /\ projects = TwoProjects
    /\ project_id_seq = Len(TwoProjects) + 1
    /\ serp_queries = <<>>
    /\ running = <<>>

\* the search results of the extraction study: one fixed result per link
FixedResults ==
    { SerpResult("q1", "t1", "l1", "s1"), SerpResult("q1", "t1", "l2", "s1") }

BatchesOf(R) == UNION {[1..n -> R] : n \in 1..MaxBatch}

\* resolver calls whose results name distinct links (calls that repeat a link
\* are studied with the URL store below)
Resolve == \E p \in ProjectIds, batch \in BatchesOf(FixedResults) :
    ~BatchHasDuplicateLink(batch) /\ GenerateAndAddUrls(p, batch)

ExtractRun ==
    \E p \in ProjectIds : \E outs \in OutcomeMaps(p, Outcomes) :
        ExtractAndAddLeads(p, outs)

ExtractRunAborted == \E p \in ProjectIds : ExtractCommitFails(p)

NextExtract == Resolve \/ ExtractRun \/ ExtractRunAborted

SpecExtract == Init /\ [][NextExtract]_vars

\* the URL store under re-resolution: every search result, few extraction outcomes
ResolveAny == \E p \in ProjectIds, batch \in BatchesOf(SerpResults) :
    GenerateAndAddUrls(p, batch)

ExtractRunFew ==
    \E p \in ProjectIds : \E outs \in OutcomeMaps(p, FewOutcomes) :
        ExtractAndAddLeads(p, outs)

NextResolve == ResolveAny \/ ExtractRunFew

SpecResolve == Init /\ [][NextResolve]_vars

(***************************************************************************)
(* Aggregation (section 4.7 of the specification; no source in the         *)
(* repository writes serp_leads_aggregated)                                *)
(***************************************************************************)
RECURSIVE DistinctKeys(_, _, _)
DistinctKeys(T, p, seen) ==
    IF T = <<>> THEN seen
    ELSE LET k == normalize_lead_name(Head(T).lead)
         IN  IF Head(T).project_id = p /\ \A i \in 1..Len(seen) : seen[i] # k
             THEN DistinctKeys(Tail(T), p, Append(seen, k))
             ELSE DistinctKeys(Tail(T), p, seen)

\* variant: every row with key k is counted
SourceCountRows(T, p, k) ==
    Cardinality({j \in 1..Len(T) :
        T[j].project_id = p /\ normalize_lead_name(T[j].lead) = k})

\* count of distinct serp_url_id among the leads of p with key k
SourceCount(T, p, k) ==
    Cardinality({T[i].serp_url_id : i \in
        {j \in 1..Len(T) : T[j].project_id = p /\ normalize_lead_name(T[j].lead) = k}})

AggregateRows(T, p) ==
    LET keys == DistinctKeys(T, p, <<>>)
    IN  [i \in 1..Len(keys) |->
            [project_id |-> p, leads |-> keys[i], serp_count |-> SourceCount(T, p, keys[i])]]

AggregateLeads(p) ==
    /\ serp_leads_aggregated' =
          SelectSeq(serp_leads_aggregated, LAMBDA r : r.project_id # p)
          \o AggregateRows(serp_leads, p)
    /\ last' = [NoLast EXCEPT !.op = "aggregate", !.p = p]
    /\ UNCHANGED <<serp_urls, serp_leads, merged_results, enrichment_columns, datasets>>
    /\ UNCHANGED <<projects, serp_queries, running, project_id_seq>>

(***************************************************************************)
(* MergedResultsService                                                    *)
(***************************************************************************)
\* column names, as sequences of characters
colA == <<"s", "1">>

colB == <<"s", "_", "1">>

colBad == <<"s", "-", "1">>

colEmpty == <<>>

\* the name of a column the table has from the start (tables.py)
colSerpCount == <<"s", "e", "r", "p", "_", "c", "o", "u", "n", "t">>

SafeColumnChars ==
    {LowerChars[i] : i \in 1..Len(LowerChars)}
    \cup {UpperChars[i] : i \in 1..Len(UpperChars)} \cup Digits \cup {"_"}

\* re.sub(r'[^a-zA-Z0-9_]', '', column_name)
SanitizeColumn(name) == SelectSeq(name, LAMBDA c : c \in SafeColumnChars)

\* variant: a name is accepted when cleaning leaves something of it
AcceptCleaned(name) == SanitizeColumn(name) # <<>>

\* the check of _ensure_enrichment_column_exists
ValidColumn(name) == SanitizeColumn(name) # <<>> /\ SanitizeColumn(name) = name

\* the enrichment columns a merged_results row can carry in this model
ColumnNames == {colA, colB}

\* the columns of class MergedResult; the model writes serp_count of these
FixedColumns == {colSerpCount}

\* the integer a text literal is cast to by UPDATE ... SET serp_count = '<text>'
IntegerText == ("87" :> 87) @@ ("90" :> 90) @@ ("5" :> 5) @@ ("7" :> 7)

IsIntegerText(v) == v \in DOMAIN IntegerText

NoEnrichment == [c \in ColumnNames |-> NULL]

NewMergedResult(id, p, lead, count) ==
    [id |-> id, project_id |-> p, lead |-> lead, serp_count |-> count,
     cols |-> NoEnrichment]

\* variant: the reset has no project filter
ResetAllProjects(T, p) ==
    [i \in 1..Len(T) |-> [T[i] EXCEPT !.serp_count = NoCount]]

\* variant: no reset
ResetNothing(T, p) == T

\* query(MergedResult).filter(project_id == p).update({"serp_count": None})
ResetSerpCounts(T, p) ==
    [i \in 1..Len(T) |->
        IF T[i].project_id = p THEN [T[i] EXCEPT !.serp_count = NoCount] ELSE T[i]]

\* variant: the lookup finds nothing
SerpFindNothing(T, p, lead) == 0

\* query(MergedResult).filter(project_id == p, lead == normalized_lead).first():
\* the index of the first matching row, 0 for none. The session does not
\* autoflush, so rows added with session.add() in the same call are not seen;
\* T is the table without them.
SerpFindExisting(T, p, lead) ==
    IF \E i \in 1..Len(T) : T[i].project_id = p /\ T[i].lead = lead
    THEN CHOOSE i \in 1..Len(T) :
            /\ T[i].project_id = p /\ T[i].lead = lead
            /\ \A j \in 1..(i - 1) : ~(T[j].project_id = p /\ T[j].lead = lead)
    ELSE 0

\* the loop over aggregated_leads; st = [rows, pending]
RECURSIVE MergeSerpLoop(_, _, _)
MergeSerpLoop(st, aggs, p) ==
    IF aggs = <<>> THEN st
    ELSE LET agg_lead == Head(aggs)
             normalized_lead == normalize_lead_name(agg_lead.leads)
             existing == SerpFindExisting(st.rows, p, normalized_lead)
         IN  IF normalized_lead = <<>>
             THEN MergeSerpLoop(st, Tail(aggs), p)
             ELSE IF existing # 0
                  THEN MergeSerpLoop(
                         [st EXCEPT !.rows[existing].serp_count = agg_lead.serp_count],
                         Tail(aggs), p)
                  ELSE MergeSerpLoop(
                         [st EXCEPT !.pending = Append(@,
                             NewMergedResult(0, p, normalized_lead, agg_lead.serp_count))],
                         Tail(aggs), p)

\* session.commit(): the pending rows are inserted and get their ids
RECURSIVE FlushPending(_, _)
FlushPending(T, pending) ==
    IF pending = <<>> THEN T
    ELSE FlushPending(Append(T, [Head(pending) EXCEPT !.id = NextId(T)]), Tail(pending))

MergeSerpResult(T, aggs, p) ==
    LET mine == SelectSeq(aggs, LAMBDA r : r.project_id = p)
        st   == MergeSerpLoop([rows |-> ResetSerpCounts(T, p), pending |-> <<>>], mine, p)
    IN  IF mine = <<>> THEN ResetSerpCounts(T, p)
        ELSE FlushPending(st.rows, st.pending)

merge_serp_leads(p) ==
    /\ merged_results' = MergeSerpResult(merged_results, serp_leads_aggregated, p)
    /\ last' = [NoLast EXCEPT !.op = "merge_serp", !.p = p,
                  !.rep = IF last.op = "merge_serp" /\ last.p = p THEN 2 ELSE 1]
    /\ UNCHANGED <<serp_urls, serp_leads, serp_leads_aggregated, enrichment_columns,
                   datasets>>
    /\ UNCHANGED <<projects, serp_queries, running, project_id_seq>>

\* variant: the lookup finds nothing
DatasetFindNothing(T, p, lead) == 0

\* the lookup of merge_dataset_leads: rows added earlier in the call were flushed
DatasetFindExisting(T, p, lead) ==
    IF \E i \in 1..Len(T) : T[i].project_id = p /\ T[i].lead = lead
    THEN CHOOSE i \in 1..Len(T) :
            /\ T[i].project_id = p /\ T[i].lead = lead
            /\ \A j \in 1..(i - 1) : ~(T[j].project_id = p /\ T[j].lead = lead)
    ELSE 0

\* str(v) if v else None
EnrichmentValue(v) == IF v = NULL \/ v = "" THEN NULL ELSE v

\* variant: the value is written to every enrichment column
WriteAllColumns(row, col, value) ==
    [row EXCEPT !.cols = [c \in ColumnNames |-> value]]

\* UPDATE merged_results SET <col> = :enrichment_value WHERE id = :id
WriteColumn(row, col, value) ==
    IF col = colSerpCount
    THEN [row EXCEPT !.serp_count = IF value = NULL THEN NoCount ELSE IntegerText[value]]
    ELSE [row EXCEPT !.cols[col] = value]

\* the UPDATE of a row raises: text that is no integer is written to serp_count
WriteFails(col, value) == col = colSerpCount /\ value # NULL /\ ~IsIntegerText(value)

\* some row of the loop raises, which ends the call without a commit
MergeDatasetFails(rows, col) ==
    \E i \in 1..Len(rows) :
        /\ normalize_lead_name(rows[i].lead) # <<>>
        /\ WriteFails(col, EnrichmentValue(rows[i].enrichment_value))

RECURSIVE MergeDatasetLoop(_, _, _, _)
\* merged_results.project_id REFERENCES projects (id): the flush of a new row
\* fails when the project does not exist (no row of it can be found instead)
MergedRowRefused(p, rows) ==
    /\ p \notin ExistingProjects
    /\ \E i \in 1..Len(rows) : normalize_lead_name(rows[i].lead) # <<>>

MergeDatasetLoop(T, rows, p, col) ==
    IF rows = <<>> THEN T
    ELSE LET normalized_lead == normalize_lead_name(Head(rows).lead)
             existing == DatasetFindExisting(T, p, normalized_lead)
             value == EnrichmentValue(Head(rows).enrichment_value)
         IN  IF normalized_lead = <<>>
             THEN MergeDatasetLoop(T, Tail(rows), p, col)
             ELSE IF existing # 0
                  THEN MergeDatasetLoop(
                         [T EXCEPT ![existing] = WriteColumn(T[existing], col, value)],
                         Tail(rows), p, col)
                  ELSE MergeDatasetLoop(
                         Append(T, IF value = NULL
                                   THEN NewMergedResult(NextId(T), p, normalized_lead, 0)
                                   ELSE WriteColumn(
                                          NewMergedResult(NextId(T), p, normalized_lead, 0),
                                          col, value)),
                         Tail(rows), p, col)

\* merge_dataset_leads(project_id, project_dataset_id, enrichment_column).
\* _ensure_enrichment_column_exists commits the new column in a session of its
\* own; a column the table already has is not added.
merge_dataset_leads(p, b, col) ==
    LET safe_column_name == SanitizeColumn(col)
        dataset_rows == datasets[b].rows
        done == [NoLast EXCEPT !.op = "merge_dataset", !.p = p, !.b = b, !.col = col]
    IN  /\ b \in 1..Len(datasets)
        /\ IF ~ValidColumn(col)
           THEN /\ UNCHANGED <<merged_results, enrichment_columns>>
                /\ last' = [done EXCEPT !.ok = FALSE]
           ELSE /\ enrichment_columns' =
                      IF safe_column_name \in FixedColumns THEN enrichment_columns
                      ELSE enrichment_columns \cup {safe_column_name}
                /\ IF \/ MergeDatasetFails(dataset_rows, safe_column_name)
                      \/ MergedRowRefused(p, dataset_rows)
                   THEN /\ UNCHANGED merged_results
                        /\ last' = [done EXCEPT !.ok = FALSE]
                   ELSE /\ merged_results' =
                             MergeDatasetLoop(merged_results, dataset_rows, p,
                                              safe_column_name)
                        /\ last' = done
        /\ UNCHANGED <<serp_urls, serp_leads, serp_leads_aggregated, datasets>>
        /\ UNCHANGED <<projects, serp_queries, running, project_id_seq>>

(***************************************************************************)
(* LeadsDatasetService.upload_dataset: the rows it stores                  *)
(***************************************************************************)
DatasetRow(lead, value) == [lead |-> lead, enrichment_value |-> value]

\* str(row[lead_column]).strip(); rows with an empty lead are skipped
RECURSIVE StoredRows(_)
StoredRows(rows) ==
    IF rows = <<>> THEN <<>>
    ELSE (IF Strip(Head(rows).lead, Whitespace) = <<>> THEN <<>>
          ELSE <<DatasetRow(Strip(Head(rows).lead, Whitespace),
                            Head(rows).enrichment_value)>>)
         \o StoredRows(Tail(rows))

\* the rows of the file with the enrichment value the upload stores: the cell
\* of the enrichment column, or "true" when the caller says the file has no
\* such column
RowsWithValues(rows, enrichment_column_exists) ==
    [i \in 1..Len(rows) |->
        DatasetRow(rows[i].lead,
                   IF enrichment_column_exists THEN rows[i].enrichment_value ELSE "true")]

\* the projects table
\* how a call of upload_dataset goes: the file lacks the lead column; it lacks
\* the enrichment column the caller says it has; it is loaded with the
\* enrichment column ("ok") or with the synthesized value; session.commit()
\* raises; project_service.update_project_counts_from_db raises after the
\* commit (project_service.py defines no such method)
UploadOutcomes ==
    {"no_lead_column", "no_enrichment_column", "ok", "synthesized", "commit_fails",
     "counts_fail"}

\* outcomes that raise before anything is added to the session
UploadRejected(p, how) ==
    p \notin ExistingProjects \/ how \in {"no_lead_column", "no_enrichment_column"}

upload_dataset(p, col, rows, how) ==
    LET stored == StoredRows(RowsWithValues(rows, how # "synthesized"))
    IN  /\ Len(datasets) < MaxDatasets
        /\ IF UploadRejected(p, how) \/ how = "commit_fails"
           THEN /\ UNCHANGED datasets
                /\ last' = [NoLast EXCEPT !.op = "upload", !.p = p, !.ok = FALSE,
                                          !.col = col]
           ELSE /\ datasets' = Append(datasets,
                      [id |-> NextId(datasets), project_id |-> p,
                       enrichment_column |-> Strip(col, Whitespace),
                       rows |-> stored, row_count |-> Len(stored)])
                /\ last' = [NoLast EXCEPT !.op = "upload", !.p = p,
                                          !.ok = (how # "counts_fail"),
                                          !.col = col, !.b = Len(datasets) + 1]
        /\ UNCHANGED <<serp_urls, serp_leads, serp_leads_aggregated, merged_results,
                       enrichment_columns>>
        /\ UNCHANGED <<projects, serp_queries, running, project_id_seq>>

(***************************************************************************)
(* Specification of the merge engine                                       *)
(***************************************************************************)
MergeOutcomes ==
    { Outcome("extract", TRUE, <<>>, NULL, 0),
      Outcome("none", TRUE, <<sAcmeCorp>>, NULL, 0),
      Outcome("none", TRUE, <<sACME, sLtd>>, NULL, 0),
      Outcome("none", TRUE, <<sQuotedOrica>>, NULL, 0) }

fileAcme ==
    <<DatasetRow(sAcme, "87"), DatasetRow(sACME, "90"), DatasetRow(sCafe, ""),
      DatasetRow(sLtd, "5")>>

fileOrica == <<DatasetRow(sOrica, "5"), DatasetRow(sAcmeCorpSp, "7")>>

\* the uploads: <<project, enrichment column, rows of the file>>
Uploads == { <<1, colA, fileAcme>>, <<2, colB, fileOrica>> }

ResolveBoth ==
    GenerateAndAddUrls(1, <<SerpResult("q1", "t1", "l1", "s1"),
                            SerpResult("q1", "t1", "l2", "s1")>>)

ExtractRunMerge ==
    \E outs \in OutcomeMaps(1, MergeOutcomes) : ExtractAndAddLeads(1, outs)

Aggregate == \E p \in ProjectIds : AggregateLeads(p)

MergeSerp == \E p \in ProjectIds : merge_serp_leads(p)

\* each file is uploaded once here (repeated uploads are studied with the
\* dataset store below)
Upload ==
    \E u \in Uploads :
        /\ \A i \in 1..Len(datasets) :
              ~(datasets[i].project_id = u[1] /\ datasets[i].enrichment_column = u[2])
        /\ upload_dataset(u[1], u[2], u[3], "ok")

MergeDataset ==
    \E b \in 1..Len(datasets) :
        merge_dataset_leads(datasets[b].project_id, b, datasets[b].enrichment_column)

NextMerge ==
    ResolveBoth \/ ExtractRunMerge \/ Aggregate \/ MergeSerp \/ Upload \/ MergeDataset

SpecMerge == Init /\ [][NextMerge]_vars

(***************************************************************************)
(* Properties of the extraction runs                                       *)
(***************************************************************************)
TerminalStatuses == {"processed", "skip"}

UrlRow(id) == RowOf(serp_urls, id)

\* the SerpLead rows a completed run added for one URL, in insertion order
RECURSIVE LeadsOf(_, _)
LeadsOf(T, url_id) ==
    IF T = <<>> THEN <<>>
    ELSE (IF Head(T).serp_url_id = url_id THEN <<Head(T).lead>> ELSE <<>>)
         \o LeadsOf(Tail(T), url_id)

LeadsOfLastRun(url_id) ==
    LeadsOf(SubSeq(serp_leads, last.n0 + 1, Len(serp_leads)), url_id)

RunCompleted == last.op = "extract" /\ last.ok /\ last.sel # <<>>

\* C1: in every step a URL's status changes only from unprocessed or failed to
\* processed, skip or failed; a URL that is processed or skip is not selected
\* by a run and keeps its status and its fetched text.
C1_StatusMachine ==
    [][\A i \in 1..Len(serp_urls) :
         /\ Len(serp_urls') >= i
         /\ serp_urls'[i].id = serp_urls[i].id
         /\ serp_urls'[i].status # serp_urls[i].status
              => /\ serp_urls[i].status \in EligibleStatuses
                 /\ serp_urls'[i].status \in {"processed", "skip", "failed"}
         /\ serp_urls[i].status \in TerminalStatuses
              => /\ serp_urls'[i].status = serp_urls[i].status
                 /\ serp_urls'[i].website_scraped = serp_urls[i].website_scraped
                 /\ (last'.op = "extract" => serp_urls[i].id \notin Range(last'.sel))
      ]_vars

\* a run of a project has just worked on other URLs while an earlier processed
\* URL of the same project, with stored page text, was left alone
C1_Witness ==
    /\ RunCompleted
    /\ \E i \in 1..Len(serp_urls) :
         /\ serp_urls[i].project_id = last.p
         /\ serp_urls[i].status = "processed"
         /\ serp_urls[i].website_scraped = "page"
         /\ serp_urls[i].id \notin Range(last.sel)

\* C2: after a completed run, a URL whose reasoning call raised is failed, has
\* no fetched text, got no SerpLead row from the run and is selected again.
C2_ExtractErrorFails ==
    RunCompleted =>
        \A id \in Range(last.sel) :
            last.outs[id].fault = "extract" =>
                /\ UrlRow(id).status = "failed"
                /\ UrlRow(id).website_scraped = NULL
                /\ LeadsOfLastRun(id) = <<>>
                /\ id \in Range(SelectIds(serp_urls, last.p))

\* the reasoning call raised for a URL that already owns a lead row from an
\* earlier failed attempt, while another URL of the run was processed
C2_Witness ==
    /\ RunCompleted
    /\ \E id \in Range(last.sel) :
         /\ last.outs[id].fault = "extract"
         /\ LeadsOf(serp_leads, id) # <<>>
    /\ \E id \in Range(last.sel) : UrlRow(id).status = "processed"

\* the status the code gives a URL for an outcome, whatever happens to the others
ExpectedStatus(o) ==
    IF o.fault \in {"extract", "unexpected"} THEN "failed"
    ELSE IF o.islist /\ CleanLeads(o.leads) # <<>>
         THEN (IF o.fault = "save" THEN "failed" ELSE "processed")
         ELSE "skip"

\* C3: after a completed run every selected URL has been handled according to
\* its own outcome, whatever failed for the others, and no URL of the project
\* is left unprocessed.
C3_FaultIsolation ==
    RunCompleted =>
        /\ \A id \in Range(last.sel) :
              /\ UrlRow(id).status = ExpectedStatus(last.outs[id])
              /\ UrlRow(id).status \in {"processed", "skip", "failed"}
        /\ \A i \in 1..Len(serp_urls) :
              serp_urls[i].project_id = last.p => serp_urls[i].status # "unprocessed"
        /\ last.res.total_urls_attempted = Len(last.sel)

\* the first URL of a run failed and a later URL of the same run was processed
C3_Witness ==
    /\ RunCompleted
    /\ Len(last.sel) >= 2
    /\ last.outs[last.sel[1]].fault # "none"
    /\ last.outs[last.sel[2]].fault = "none"
    /\ UrlRow(last.sel[2]).status = "processed"

\* what C4 says of one URL of a completed run
C4_Holds(id) ==
    LET o     == last.outs[id]
        clean == IF o.islist THEN CleanLeads(o.leads) ELSE <<>>
    IN  /\ UrlRow(id).status = (IF Len(clean) >= 1 THEN "processed" ELSE "skip")
        /\ LeadsOfLastRun(id) = clean
        /\ UrlRow(id).website_scraped = o.scraped

DroppedTokens == {<<>>, sBrackets, sNone, <<"n", "u", "l", "l">>}

\* C21: no stored SerpLead is empty or one of the dropped tokens, and a URL
\* whose reasoning call returned ["Acme Corp", "[]", "", "Acme Corp "] got exactly
\* two rows from the run, both "Acme Corp" (the repeated name is not merged).
C21_CleaningRule ==
    /\ \A i \in 1..Len(serp_leads) : serp_leads[i].lead \notin DroppedTokens
    /\ RunCompleted =>
          \A id \in Range(last.sel) :
              (/\ last.outs[id].fault = "none"
               /\ last.outs[id].leads = <<sAcmeCorp, sBrackets, sEmpty, sAcmeCorpSp>>)
                 => LeadsOfLastRun(id) = <<sAcmeCorp, sAcmeCorp>>

\* one run handled the list of the example for one URL, a list of dropped
\* tokens only for a second URL, and stored nothing for the second
C21_Witness ==
    /\ RunCompleted
    /\ \E id \in Range(last.sel) :
         /\ last.outs[id].leads = <<sAcmeCorp, sBrackets, sEmpty, sAcmeCorpSp>>
         /\ LeadsOf(serp_leads, id) = <<sAcmeCorp, sAcmeCorp>>
    /\ \E id \in Range(last.sel) :
         /\ last.outs[id].leads = <<sBrackets, sNone>>
         /\ LeadsOf(serp_leads, id) = <<>>

\* the project has no URL with status unprocessed or failed
NoEligibleUrl(p) ==
    \A i \in 1..Len(serp_urls) :
        ~(serp_urls[i].project_id = p /\ serp_urls[i].status \in {"unprocessed", "failed"})

ZeroResult ==
    [urls_processed |-> 0, urls_skipped |-> 0, urls_failed |-> 0,
     total_urls_attempted |-> 0, new_leads_extracted |-> 0]

\* C22: a run that returns for a project without eligible URL returns the
\* all-zero result and changes no table; a run that returns a result with no
\* URL attempted was made for a project without eligible URL.
C22_NothingToDo ==
    [][(last'.op = "extract" /\ last'.ok) =>
         /\ NoEligibleUrl(last'.p) =>
               /\ last'.res = ZeroResult
               /\ UNCHANGED <<serp_urls, serp_leads, serp_leads_aggregated,
                              merged_results, enrichment_columns, datasets>>
         /\ last'.res.total_urls_attempted = 0 => NoEligibleUrl(last'.p)
      ]_vars

\* a run found nothing to do for a project whose URLs are all processed or skip
\* and which has leads stored
C22_Witness ==
    /\ last.op = "extract" /\ last.ok /\ last.res = ZeroResult
    /\ \E i \in 1..Len(serp_urls) :
         serp_urls[i].project_id = last.p /\ serp_urls[i].status = "processed"
    /\ \E i \in 1..Len(serp_urls) :
         serp_urls[i].project_id = last.p /\ serp_urls[i].status = "skip"
    /\ \E i \in 1..Len(serp_leads) : serp_leads[i].project_id = last.p

\* the URLs for which the rows T hold a lead
UrlsWithLeads(T) == {T[i].serp_url_id : i \in 1..Len(T)}

\* C27: every call of this specification is one step, so no two runs of a
\* project overlap. The statement requires that then the leads of a URL are
\* inserted by at most one run: a run that inserts leads for a URL finds no
\* lead of that URL in the store.
C27_AsStated ==
    [][(last'.op = "extract" /\ last'.ok)
          => \A id \in UrlsWithLeads(SubSeq(serp_leads', Len(serp_leads) + 1,
                                            Len(serp_leads'))) :
                 id \notin UrlsWithLeads(serp_leads)]_vars

\* the insert loop of the URL raised before every cleaned name was added
InsertFailed(o) ==
    o.fault = "save" /\ o.islist /\ o.k < Len(CleanLeads(o.leads))

\* C31: the statement requires that a URL whose insert step failed ends the
\* run failed and with no lead row of the run stored, while the other URLs of
\* the batch are committed as they were handled.
C31_AsStated ==
    RunCompleted =>
        \A id \in Range(last.sel) :
            IF InsertFailed(last.outs[id])
            THEN /\ UrlRow(id).status = "failed"
                 /\ LeadsOfLastRun(id) = <<>>
            ELSE /\ UrlRow(id).status = ExpectedStatus(last.outs[id])
                 /\ last.outs[id].fault = "none" =>
                       LeadsOfLastRun(id) = (IF last.outs[id].islist
                                             THEN CleanLeads(last.outs[id].leads)
                                             ELSE <<>>)

\* C33: every step of this specification is a whole run, so every state is a
\* committed state reached by runs that do not overlap. The statement
\* requires that a URL is processed exactly if it owns a lead row.
C33_AsStated ==
    \A i \in 1..Len(serp_urls) :
        serp_urls[i].status = "processed" <=> serp_urls[i].id \in UrlsWithLeads(serp_leads)

\* the URLs the last run attempted that ended it with the status
EndedWith(st) == {id \in Range(last.sel) : UrlRow(id).status = st}

\* C34: the statement requires of every result a run returns that the three
\* counts add up to the URLs attempted, that each is the number of attempted
\* URLs that ended with its status, and that new_leads_extracted is the
\* number of lead rows the run stored.
C34_AsStated ==
    (last.op = "extract" /\ last.ok) =>
        /\ last.res.urls_processed + last.res.urls_skipped + last.res.urls_failed
              = last.res.total_urls_attempted
        /\ last.res.urls_processed = Cardinality(EndedWith("processed"))
        /\ last.res.urls_skipped = Cardinality(EndedWith("skip"))
        /\ last.res.urls_failed = Cardinality(EndedWith("failed"))
        /\ last.res.new_leads_extracted = Len(serp_leads) - last.n0

\* the retry study: few outcomes, and the assumption of C6 as fairness: runs
\* keep being invoked and, for every URL, a run in which the URL is handled
\* without error keeps being possible until it is taken
RetryOutcomes ==
    { Outcome("extract", TRUE, <<>>, NULL, 0),
      Outcome("save", TRUE, <<sAcme, sACME>>, "page", 1),
      Outcome("none", TRUE, <<>>, "page", 0),
      Outcome("none", TRUE, <<sQuotedOrica>>, NULL, 0) }

ExtractRunRetry ==
    \E p \in ProjectIds : \E outs \in OutcomeMaps(p, RetryOutcomes) :
        ExtractAndAddLeads(p, outs)

\* project 1 resolves link l1 or both links, project 2 resolves link l2
RetryBatches(p) ==
    IF p = 1
    THEN { <<SerpResult("q1", "t1", "l1", "s1")>>,
           <<SerpResult("q1", "t1", "l1", "s1"), SerpResult("q1", "t1", "l2", "s1")>> }
    ELSE { <<SerpResult("q1", "t1", "l2", "s1")>> }

ResolveRetry ==
    \E p \in ProjectIds : \E batch \in RetryBatches(p) : GenerateAndAddUrls(p, batch)

NextRetry == ResolveRetry \/ ExtractRunRetry \/ ExtractRunAborted

UrlIds == 1..Cardinality(Links)

HandledCleanly(id) ==
    \E p \in ProjectIds : \E outs \in OutcomeMaps(p, RetryOutcomes) :
        /\ id \in DOMAIN outs
        /\ outs[id].fault = "none"
        /\ ExtractAndAddLeads(p, outs)

SpecRetry ==
    Init /\ [][NextRetry]_vars /\ \A id \in UrlIds : WF_vars(HandledCleanly(id))

HasStatus(id, S) ==
    \E i \in 1..Len(serp_urls) : serp_urls[i].id = id /\ serp_urls[i].status \in S

C5_UpsertKeepsStatus ==
    /\ [](\A i, j \in 1..Len(serp_urls) :
             serp_urls[i].link = serp_urls[j].link => i = j)
    /\ [][(last'.op = "resolve" /\ last'.ok) =>
            /\ \A k \in 1..Len(last'.batch) :
                 \E i \in 1..Len(serp_urls') :
                    /\ serp_urls'[i].link = last'.batch[k].link
                    /\ serp_urls'[i].title = last'.batch[k].title
                    /\ serp_urls'[i].snippet = last'.batch[k].snippet
            /\ \A i \in 1..Len(serp_urls) :
                 /\ Len(serp_urls') >= i
                 /\ serp_urls'[i].id = serp_urls[i].id
                 /\ serp_urls'[i].link = serp_urls[i].link
                 /\ serp_urls'[i].project_id = serp_urls[i].project_id
                 /\ serp_urls'[i].query = serp_urls[i].query
                 /\ serp_urls'[i].status = serp_urls[i].status
                 /\ serp_urls'[i].website_scraped = serp_urls[i].website_scraped
         ]_vars

\* a processed URL stored from the result (q1, t1, s1) has just been resolved
\* again and now carries the title and snippet of the later result
C5_Witness ==
    /\ last.op = "resolve" /\ last.ok
    /\ \E i \in 1..Len(serp_urls) :
         /\ serp_urls[i].status = "processed"
         /\ serp_urls[i].query = "q1"
         /\ serp_urls[i].title = "t2"
         /\ serp_urls[i].snippet = "s2"
         /\ \E k \in 1..Len(last.batch) : last.batch[k].link = serp_urls[i].link

\* C36: a link belongs to the project that stored it first. A resolver call
\* of another project that completes and names the link leaves the row with
\* its project and its query and stores no row with that link for the calling
\* project; an extraction run selects and changes rows of its own project only,
\* so it never handles the link for the other project.
C36_GlobalLink ==
    [][/\ (last'.op = "resolve" /\ last'.ok) =>
            \A i \in 1..Len(serp_urls) :
                ( /\ serp_urls[i].project_id # last'.p
                  /\ \E k \in 1..Len(last'.batch) :
                        last'.batch[k].link = serp_urls[i].link ) =>
                    /\ serp_urls'[i].project_id = serp_urls[i].project_id
                    /\ serp_urls'[i].query = serp_urls[i].query
                    /\ ~\E j \in 1..Len(serp_urls') :
                          /\ serp_urls'[j].link = serp_urls[i].link
                          /\ serp_urls'[j].project_id = last'.p
       /\ (last'.op = "extract") =>
            /\ \A id \in Range(last'.sel) :
                  \E i \in 1..Len(serp_urls) :
                      serp_urls[i].id = id /\ serp_urls[i].project_id = last'.p
            /\ \A i \in 1..Len(serp_urls) :
                  serp_urls[i].project_id # last'.p =>
                      serp_urls'[i] = serp_urls[i]
      ]_vars

\* project 2 has just resolved a result (q2, t2, s2) for link l1, which
\* project 1 stored from query q1: the row is still project 1's, with query q1
\* and the later title and snippet, and it is the only row with that link
C36_Witness ==
    /\ last.op = "resolve" /\ last.ok /\ last.p = 2
    /\ \E k \in 1..Len(last.batch) :
         /\ last.batch[k].link = "l1" /\ last.batch[k].query = "q2"
    /\ \E i \in 1..Len(serp_urls) :
         /\ serp_urls[i].link = "l1"
         /\ serp_urls[i].project_id = 1
         /\ serp_urls[i].query = "q1"
         /\ serp_urls[i].title = "t2"
         /\ serp_urls[i].snippet = "s2"
    /\ \A i \in 1..Len(serp_urls) : serp_urls[i].project_id # 2

\* C37: the statement requires that a resolver call of an existing project
\* whose batch names one link more than once completes, and that afterwards
\* every link of the batch has exactly one row, with a title and snippet the
\* batch gave for it.
C37_AsStated ==
    [][( /\ last'.op = "resolve"
         /\ last'.p \in ExistingProjects
         /\ BatchHasDuplicateLink(last'.batch) ) =>
            /\ last'.ok
            /\ \A k \in 1..Len(last'.batch) :
                 /\ Cardinality({i \in 1..Len(serp_urls') :
                        serp_urls'[i].link = last'.batch[k].link}) = 1
                 /\ \E i \in 1..Len(serp_urls'), n \in 1..Len(last'.batch) :
                        /\ serp_urls'[i].link = last'.batch[k].link
                        /\ last'.batch[n].link = last'.batch[k].link
                        /\ serp_urls'[i].title = last'.batch[n].title
                        /\ serp_urls'[i].snippet = last'.batch[n].snippet
      ]_vars

MergeSerpDone == last.op = "merge_serp"

AggregatedOf(p, lead) ==
    {r \in Rows(serp_leads_aggregated) :
        r.project_id = p /\ normalize_lead_name(r.leads) = lead}

C9_SerpMergeFrame ==
    [][last'.op = "merge_serp" =>
         /\ Len(merged_results') >= Len(merged_results)
         /\ \A i \in 1..Len(merged_results) :
              /\ merged_results'[i].id = merged_results[i].id
              /\ merged_results'[i].project_id = merged_results[i].project_id
              /\ merged_results'[i].lead = merged_results[i].lead
              /\ merged_results'[i].cols = merged_results[i].cols
              /\ merged_results[i].project_id # last'.p
                    => merged_results'[i] = merged_results[i]
         /\ \A i \in (Len(merged_results) + 1)..Len(merged_results') :
              /\ merged_results'[i].project_id = last'.p
              /\ merged_results'[i].cols = NoEnrichment
         /\ enrichment_columns' = enrichment_columns
      ]_vars

\* the merge of project 1 has run with a dataset row of project 1 holding a
\* value, a row of project 2 holding a value and the count 0, and a row added
\* by the merge
C9_Witness ==
    /\ MergeSerpDone /\ last.p = 1
    /\ \E i, j, k \in 1..Len(merged_results) :
         /\ merged_results[i].project_id = 1
         /\ merged_results[i].cols[colA] # NULL
         /\ merged_results[j].project_id = 2
         /\ merged_results[j].serp_count = 0
         /\ merged_results[j].cols # NoEnrichment
         /\ merged_results[k].project_id = 1
         /\ merged_results[k].cols = NoEnrichment
         /\ merged_results[k].serp_count # NoCount

\* C10: a merge_serp_leads(P) that directly follows a merge_serp_leads(P)
\* leaves merged_results as it is.
C10_SerpMergeIdempotent ==
    [][(last'.op = "merge_serp" /\ last'.rep = 2) => merged_results' = merged_results]_vars

\* the merge has just run a second time in a row on a table holding a counted
\* row and a dataset-only row
C10_Witness ==
    /\ MergeSerpDone /\ last.rep = 2
    /\ \E i, j \in 1..Len(merged_results) :
         /\ merged_results[i].project_id = last.p
         /\ merged_results[j].project_id = last.p
         /\ merged_results[i].serp_count \notin {NoCount, 0}
         /\ merged_results[j].serp_count = NoCount

(***************************************************************************)
(* Specification of the dataset store: uploads and dataset merges           *)
(***************************************************************************)
sACMEsp == <<"A", "C", "M", "E", " ">>

sAcmeLtd == <<"A", "c", "m", "e", " ", "L", "t", "d">>

\* a file whose leads repeat: "Acme" and "ACME " are equal after trimming and
\* lower-casing, "Acme" and "Acme Ltd" have one normalized name
fileDup ==
    <<DatasetRow(sAcme, "87"), DatasetRow(sACMEsp, "90"), DatasetRow(sAcmeLtd, "5"),
      DatasetRow(sCafe, "")>>

\* a project id with no row in projects
MissingProject == 3

\* the uploads: <<project, enrichment column, rows of the file>>
DatasetUploads ==
    { <<1, colA, fileDup>>, <<1, colB, fileOrica>>, <<MissingProject, colA, fileOrica>> }

\* no batch of the project with the column is stored yet
NotUploaded(p, col) ==
    \A i \in 1..Len(datasets) :
        ~(datasets[i].project_id = p /\ datasets[i].enrichment_column = col)

\* each file is loaded at most once; a call that stored nothing can be repeated
UploadAny ==
    \E u \in DatasetUploads, how \in UploadOutcomes :
        NotUploaded(u[1], u[2]) /\ upload_dataset(u[1], u[2], u[3], how)

\* the column names a caller passes for a batch: the batch's own and three others
ColumnInputs(b) == {datasets[b].enrichment_column, colBad, colEmpty, colSerpCount}

MergeDatasetAny ==
    \E b \in 1..Len(datasets) : \E col \in ColumnInputs(b) :
        merge_dataset_leads(datasets[b].project_id, b, col)

\* the SERP side of project 1: both URLs name "Acme Corp"
SeedOutcomes == { Outcome("none", TRUE, <<sAcmeCorp>>, NULL, 0) }

ExtractRunSeed ==
    \E outs \in OutcomeMaps(1, SeedOutcomes) : ExtractAndAddLeads(1, outs)

AggregateSeed == AggregateLeads(1)

MergeSerpSeed == merge_serp_leads(1)

NextDataset ==
    UploadAny \/ MergeDatasetAny \/ ResolveBoth \/ ExtractRunSeed \/ AggregateSeed
    \/ MergeSerpSeed

SpecDataset == Init /\ [][NextDataset]_vars

(***************************************************************************)
(* Properties of the dataset merge                                         *)
(***************************************************************************)
MergeDatasetStep == last'.op = "merge_dataset"

\* rows of merged_results that exist before the step, and rows the step adds
ExistingRows == 1..Len(merged_results)

AddedRows == (Len(merged_results) + 1)..Len(merged_results')

\* C11 as stated: a merge_dataset_leads step, whatever column name it accepts,
\* leaves the serp_count of every existing row as it is and gives every row it
\* adds the serp_count 0.
C11_AsStated ==
    [][MergeDatasetStep =>
         /\ Len(merged_results') >= Len(merged_results)
         /\ \A i \in ExistingRows :
              merged_results'[i].serp_count = merged_results[i].serp_count
         /\ \A i \in AddedRows : merged_results'[i].serp_count = 0
      ]_vars

\* C12: a merge_dataset_leads step for column c leaves the value of every other
\* enrichment column of every existing row as it is, and the rows it adds have
\* no value in any other enrichment column.
C12_OnlyOwnColumn ==
    [][MergeDatasetStep =>
         /\ Len(merged_results') >= Len(merged_results)
         /\ \A i \in ExistingRows :
              \A k \in ColumnNames \ {SanitizeColumn(last'.col)} :
                  merged_results'[i].cols[k] = merged_results[i].cols[k]
         /\ \A i \in AddedRows :
              \A k \in ColumnNames \ {SanitizeColumn(last'.col)} :
                  merged_results'[i].cols[k] = NULL
      ]_vars

\* the batch of column s_1 was merged after the batch of column s1: the row
\* "acme", named in both batches and found on two pages, carries both values
C12_Witness ==
    /\ last.op = "merge_dataset" /\ last.ok /\ last.col = colB
    /\ \E i \in 1..Len(merged_results) :
         /\ merged_results[i].lead = <<"a", "c", "m", "e">>
         /\ merged_results[i].serp_count = 2
         /\ merged_results[i].cols[colA] = "5"
         /\ merged_results[i].cols[colB] = "7"

\* C13 as stated: a merge_dataset_leads step that directly follows one with the
\* same project, batch and column leaves merged_results as it is.
C13_AsStated ==
    [][(/\ last.op = "merge_dataset" /\ MergeDatasetStep
        /\ last'.p = last.p /\ last'.b = last.b /\ last'.col = last.col)
          => merged_results' = merged_results
      ]_vars

\* the column name is empty or has a character outside letters, digits, "_"
IllFormedColumn(name) ==
    name = <<>> \/ \E i \in 1..Len(name) : name[i] \notin SafeColumnChars

\* C14: a merge_dataset_leads step with an ill-formed column name fails, adds
\* no column and leaves merged_results as it is.
C14_InvalidColumnRejected ==
    [][(MergeDatasetStep /\ IllFormedColumn(last'.col)) =>
         /\ ~last'.ok
         /\ enrichment_columns' = enrichment_columns
         /\ merged_results' = merged_results
      ]_vars

\* the merge of a batch with rows was refused for the name "s-1", and the
\* column "s1" that cleaning the name would give was not added
C14_Witness ==
    /\ last.op = "merge_dataset" /\ ~last.ok /\ last.col = colBad
    /\ datasets[last.b].rows # <<>>
    /\ merged_results # <<>>
    /\ colA \notin enrichment_columns

(***************************************************************************)
(* Properties of the uploads                                               *)
(***************************************************************************)
\* a lead trimmed and lower-cased
TrimLower(s) == [i \in 1..Len(Strip(s, Whitespace)) |-> LowerChar(Strip(s, Whitespace)[i])]

\* C15 as stated: no stored batch has two rows whose leads are equal after
\* trimming and lower-casing (such a file is rejected as a whole).
C15_AsStated ==
    \A b \in 1..Len(datasets) :
        \A i, j \in 1..Len(datasets[b].rows) :
            TrimLower(datasets[b].rows[i].lead) = TrimLower(datasets[b].rows[j].lead)
                => i = j

\* C16 as stated: no stored batch has two rows whose leads differ after trimming
\* and lower-casing and still have one normalized name.
C16_AsStated ==
    \A b \in 1..Len(datasets) :
        \A i, j \in 1..Len(datasets[b].rows) :
            TrimLower(datasets[b].rows[i].lead) # TrimLower(datasets[b].rows[j].lead)
                => normalize_lead_name(datasets[b].rows[i].lead)
                     # normalize_lead_name(datasets[b].rows[j].lead)

\* C17 as stated: an upload_dataset step that ends with an error leaves the
\* stored batches and rows and merged_results as they are.
C17_AsStated ==
    [][(last'.op = "upload" /\ ~last'.ok) =>
         /\ datasets' = datasets
         /\ merged_results' = merged_results
      ]_vars

\* C18 as stated: an upload_dataset step that stores a batch also merges it:
\* when the merge of the batch cannot fail, merged_results is what
\* merge_dataset_leads makes of it for the new batch.
C18_AsStated ==
    [][(last'.op = "upload" /\ Len(datasets') > Len(datasets)) =>
         LET batch == datasets'[Len(datasets')]
             col == batch.enrichment_column
         IN  (ValidColumn(col) /\ ~MergeDatasetFails(batch.rows, col)) =>
                 merged_results' =
                     MergeDatasetLoop(merged_results, batch.rows, batch.project_id, col)
      ]_vars

(***************************************************************************)
(* Specification of the pipeline: resolve, extract, aggregate, SERP merge  *)
(***************************************************************************)
\* what the reasoning step returns here: no name, one name, a name twice (with
\* entries that are dropped), and the same company under another spelling
PipelineOutcomes ==
    { Outcome("none", TRUE, <<>>, "page", 0),
      Outcome("none", TRUE, <<sOrica>>, "page", 0),
      Outcome("none", TRUE, <<sAcmeCorp, sBrackets, sEmpty, sAcmeCorpSp>>, "page", 0),
      Outcome("none", TRUE, <<sACME>>, NULL, 0) }

ExtractRunPipeline ==
    \E p \in ProjectIds : \E outs \in OutcomeMaps(p, PipelineOutcomes) :
        ExtractAndAddLeads(p, outs)

NextPipeline == Resolve \/ ExtractRunPipeline \/ Aggregate \/ MergeSerp

SpecPipeline == Init /\ [][NextPipeline]_vars

\* the rows of a table that belong to project p, in order
OfProject(T, p) == SelectSeq(T, LAMBDA r : r.project_id = p)

\* the aggregated leads of p were computed from the SerpLead rows as they are
AggregationCurrent(p) ==
    OfProject(serp_leads_aggregated, p) = AggregateRows(serp_leads, p)

keyOrica == <<"o", "r", "i", "c", "a">>

\* project p has two URLs: the first is processed and owns the one lead
\* "Orica", the second is skip and owns none
OricaScenario(p) ==
    LET urls == OfProject(serp_urls, p)
    IN  /\ Len(urls) = 2
        /\ urls[1].status = "processed" /\ LeadsOf(serp_leads, urls[1].id) = <<sOrica>>
        /\ urls[2].status = "skip" /\ LeadsOf(serp_leads, urls[2].id) = <<>>

\* C23: when merge_serp_leads(P) has just run on an aggregation of the leads as
\* they are, and P has two URLs, the first processed with the one lead "Orica"
\* and the second skip without lead, then P has exactly one aggregated lead,
\* "orica" with count 1, and exactly one MergedResult row, "orica" with
\* serp_count 1 and no enrichment value.
C23_PipelineOrder ==
    (MergeSerpDone /\ AggregationCurrent(last.p) /\ OricaScenario(last.p)) =>
        /\ LET aggs == OfProject(serp_leads_aggregated, last.p)
           IN  /\ Len(aggs) = 1
               /\ aggs[1].leads = keyOrica /\ aggs[1].serp_count = 1
        /\ LET rows == OfProject(merged_results, last.p)
           IN  /\ Len(rows) = 1
               /\ rows[1].lead = keyOrica /\ rows[1].serp_count = 1
               /\ rows[1].cols = NoEnrichment

\* the scenario was run for project 1 with both links, and the merge has made
\* its row
C23_Witness ==
    /\ MergeSerpDone /\ last.p = 1 /\ AggregationCurrent(1) /\ OricaScenario(1)
    /\ Len(OfProject(serp_urls, 1)) = Cardinality(Links)
    /\ Len(OfProject(merged_results, 1)) = 1

\* the URLs of p that own at least one SerpLead whose normalized text is k
SourcePages(p, k) ==
    {u \in RowIds(serp_urls) :
        \E i \in 1..Len(serp_leads) :
            /\ serp_leads[i].project_id = p
            /\ serp_leads[i].serp_url_id = u
            /\ normalize_lead_name(serp_leads[i].lead) = k}

\* C24: right after the aggregation of P, every aggregated lead of P counts the
\* URLs that own a SerpLead of P with that normalized name, every normalized
\* name among the SerpLead rows of P has an aggregated lead, and no two
\* aggregated leads of P have the same name.
C24_CountsDistinctPages ==
    (last.op = "aggregate") =>
        LET aggs == OfProject(serp_leads_aggregated, last.p)
        IN  /\ \A i \in 1..Len(aggs) :
                  /\ aggs[i].serp_count = Cardinality(SourcePages(last.p, aggs[i].leads))
                  /\ aggs[i].serp_count >= 1
            /\ \A i \in 1..Len(serp_leads) :
                  serp_leads[i].project_id = last.p =>
                      \E j \in 1..Len(aggs) :
                          aggs[j].leads = normalize_lead_name(serp_leads[i].lead)
            /\ \A i, j \in 1..Len(aggs) : aggs[i].leads = aggs[j].leads => i = j

\* "acme" was found twice on one page and once on another: three rows, count 2
C24_Witness ==
    /\ last.op = "aggregate"
    /\ \E a \in Rows(serp_leads_aggregated) :
         /\ a.project_id = last.p
         /\ a.leads = <<"a", "c", "m", "e">>
         /\ a.serp_count = 2
         /\ Cardinality({i \in 1..Len(serp_leads) :
                normalize_lead_name(serp_leads[i].lead) = a.leads}) = 3

(***************************************************************************)
(* The providers: utils/scrapers.py and the resolver loop over the queries *)
(***************************************************************************)
\* what a provider call ends with: raised = requests.get or the parsing of the
\* response raises; otherwise data is what the call returns
Answer(raised, data) == [raised |-> raised, data |-> data]

ProviderError == Answer(TRUE, <<>>)

\* jina_serp_scraper(query): the list of results, or the exception; a result is
\* a dict with title, url and description
SerpAnswers ==
    { ProviderError,
      Answer(FALSE, <<>>),
      Answer(FALSE, << [title |-> "t1", url |-> "l1", description |-> "s1"] >>),
      Answer(FALSE, << [title |-> "t2", url |-> "l2", description |-> "s2"] >>) }

\* STEP 1 of _generate_and_add_urls_to_table: all_urls, or ProviderError when
\* the scraper raises for a query (the loop has no try block of its own)
RECURSIVE CollectUrls(_, _, _)
CollectUrls(queries, answers, all_urls) ==
    IF queries = <<>> THEN all_urls
    ELSE LET serp_object == answers[Head(queries)].data
         IN  IF answers[Head(queries)].raised THEN ProviderError
             ELSE CollectUrls(Tail(queries), answers,
                    Answer(FALSE, all_urls.data \o [i \in 1..Len(serp_object) |->
                        SerpResult(Head(queries), serp_object[i].title,
                                   serp_object[i].url, serp_object[i].description)]))

\* the whole call, from the queries: an exception of the scraper, like one of
\* the statement, leaves through the outer except branch, which re-raises
GenerateAndAddUrlsFromQueries(p, queries, answers) ==
    LET collected == CollectUrls(queries, answers, Answer(FALSE, <<>>))
        all_urls == collected.data
        done == [NoLast EXCEPT !.op = "resolve_queries", !.p = p, !.sel = queries,
                               !.outs = answers]
    IN  /\ IF collected.raised
           THEN /\ UNCHANGED serp_urls
                /\ last' = [done EXCEPT !.ok = FALSE]
           ELSE IF \/ BatchHasDuplicateLink(all_urls)
                   \/ ForeignKeyViolation(serp_urls, p, all_urls)
                THEN /\ UNCHANGED serp_urls
                     /\ last' = [done EXCEPT !.ok = FALSE, !.batch = all_urls]
                ELSE /\ serp_urls' = UpsertAll(serp_urls, p, all_urls)
                     /\ last' = [done EXCEPT !.batch = all_urls]
        /\ UNCHANGED <<serp_leads, serp_leads_aggregated, merged_results,
                       enrichment_columns, datasets>>
        /\ UNCHANGED <<projects, serp_queries, running, project_id_seq>>

\* the body of the page-fetch response: a page, with the characters
\* clean_content removes; an empty body; or the exception of requests.get
PageAnswers ==
    { ProviderError,
      Answer(FALSE, <<>>),
      Answer(FALSE, <<" ", "p", "zwsp", "g", " ", " ", "e", " ">>) }

\* clean_content: empty content is returned as it is; zero-width characters go,
\* runs of whitespace become one space, the ends are stripped
clean_content(content) ==
    IF content = <<>> THEN content
    ELSE CollapseAndStrip(SelectSeq(content, LAMBDA c : c # "zwsp"))

\* jina_url_scraper(url), called by the tool _scrape_url: no try block, so the
\* exception of requests.get leaves the function
jina_url_scraper(answer) ==
    /\ last' = IF answer.raised
               THEN [NoLast EXCEPT !.op = "fetch", !.ok = FALSE, !.outs = answer]
               ELSE [NoLast EXCEPT !.op = "fetch", !.outs = answer,
                                   !.res = clean_content(answer.data)]
    /\ UNCHANGED <<serp_urls, serp_leads, serp_leads_aggregated, merged_results,
                   enrichment_columns, datasets>>
    /\ UNCHANGED <<projects, serp_queries, running, project_id_seq>>

(***************************************************************************)
(* Specification of the resolver and the page fetch with failing providers *)
(***************************************************************************)
QueryLists == { <<"q1">>, <<"q1", "q2">>, <<"q2", "q1">> }

\* at least one query is answered with a result or an error (a call without
\* any result is not studied here)
ResolveQueries ==
    \E p \in ProjectIds, queries \in QueryLists :
      \E answers \in [Range(queries) -> SerpAnswers] :
        /\ \E i \in 1..Len(queries) : answers[queries[i]] # Answer(FALSE, <<>>)
        /\ GenerateAndAddUrlsFromQueries(p, queries, answers)

FetchPage == \E answer \in PageAnswers : jina_url_scraper(answer)

NextProvider == ResolveQueries \/ FetchPage

SpecProvider == Init /\ [][NextProvider]_vars

\* the results of the queries that were answered, in the order of the queries
RECURSIVE AnsweredUrls(_, _)
AnsweredUrls(queries, answers) ==
    IF queries = <<>> THEN <<>>
    ELSE (IF answers[Head(queries)].raised THEN <<>>
          ELSE CollectUrls(<<Head(queries)>>, answers, Answer(FALSE, <<>>)).data)
         \o AnsweredUrls(Tail(queries), answers)

\* C29 as stated: a resolver call in which the provider fails for some query
\* still upserts the links returned for its other queries (when these name no
\* link twice) and succeeds.
C29_AsStated ==
    [][(/\ last'.op = "resolve_queries"
        /\ \E i \in 1..Len(last'.sel) : last'.outs[last'.sel[i]].raised
        /\ ~BatchHasDuplicateLink(AnsweredUrls(last'.sel, last'.outs)))
          => /\ last'.ok
             /\ serp_urls' = UpsertAll(serp_urls, last'.p,
                                       AnsweredUrls(last'.sel, last'.outs))
      ]_vars

\* C30 as stated: when the page-fetch provider fails, jina_url_scraper does not
\* raise and returns the empty string.
C30_AsStated ==
    (last.op = "fetch" /\ last.outs.raised) => (last.ok /\ last.res = <<>>)

(***************************************************************************)
(* Projects: ProjectService.create_project, ProjectService.delete_project  *)
(* and LeadsSerpService._add_queries_to_table                              *)
(***************************************************************************)
\* bound: the keys project_id_seq hands out
MaxProjects == 2

\* bound: the rows of serp_queries
MaxQueries == 1

ProjectKeys == 1..MaxProjects

Tables ==
    <<serp_urls, serp_leads, serp_leads_aggregated, merged_results, enrichment_columns,
      datasets>>

create_project(name) ==
    /\ project_id_seq <= MaxProjects
    /\ IF \E i \in 1..Len(projects) : projects[i].project_name = name
       THEN /\ UNCHANGED <<projects, project_id_seq>>
            /\ last' = [NoLast EXCEPT !.op = "create_project", !.ok = FALSE]
       ELSE /\ projects' = Append(projects, Project(project_id_seq, name))
            /\ project_id_seq' = project_id_seq + 1
            /\ last' = [NoLast EXCEPT !.op = "create_project", !.p = project_id_seq]
    /\ UNCHANGED <<Tables, serp_queries, running>>

KeepChildren(T, p) == T

\* the rows of a child collection of the project, loaded through the
\* relationship and deleted with it: cascade = "all, delete-orphan"
DeleteCascade(T, p) == SelectSeq(T, LAMBDA r : r.project_id # p)

HasRowsOf(T, p) == \E i \in 1..Len(T) : T[i].project_id = p

\* the child tables that hold a row of the project, in the order of the
\* relationships of Project
ChildTablesOf(p) ==
    SelectSeq(<<"serp_queries", "serp_urls", "serp_leads", "serp_leads_aggregated",
                "project_datasets", "merged_results">>,
              LAMBDA t :
                \/ t = "serp_queries" /\ HasRowsOf(serp_queries, p)
                \/ t = "serp_urls" /\ HasRowsOf(serp_urls, p)
                \/ t = "serp_leads" /\ HasRowsOf(serp_leads, p)
                \/ t = "serp_leads_aggregated" /\ HasRowsOf(serp_leads_aggregated, p)
                \/ t = "project_datasets" /\ HasRowsOf(datasets, p)
                \/ t = "merged_results" /\ HasRowsOf(merged_results, p))

\* a batch of datasets holds its rows, so the rows go with the batch
delete_project(p) ==
    IF p \notin ExistingProjects
    THEN /\ last' = [NoLast EXCEPT !.op = "delete_project", !.p = p, !.ok = FALSE]
         /\ UNCHANGED <<Tables, projects, serp_queries, running, project_id_seq>>
    ELSE /\ projects' = SelectSeq(projects, LAMBDA r : r.id # p)
         /\ serp_queries' = DeleteCascade(serp_queries, p)
         /\ serp_urls' = DeleteCascade(serp_urls, p)
         /\ serp_leads' = DeleteCascade(serp_leads, p)
         /\ serp_leads_aggregated' = DeleteCascade(serp_leads_aggregated, p)
         /\ datasets' = DeleteCascade(datasets, p)
         /\ merged_results' = DeleteCascade(merged_results, p)
         /\ last' = [NoLast EXCEPT !.op = "delete_project", !.p = p,
                                   !.sel = ChildTablesOf(p)]
         /\ UNCHANGED <<enrichment_columns, running, project_id_seq>>

SerpQuery(id, p, query) == [id |-> id, project_id |-> p, query |-> query]

\* serp_queries.project_id REFERENCES projects (id): the commit fails for a
\* project that does not exist and the call raises ValueError
AddQueriesToTable(p, queries) ==
    /\ Len(serp_queries) + Len(queries) <= MaxQueries
    /\ IF p \notin ExistingProjects /\ queries # <<>>
       THEN /\ UNCHANGED serp_queries
            /\ last' = [NoLast EXCEPT !.op = "add_queries", !.p = p, !.ok = FALSE]
       ELSE /\ serp_queries' = serp_queries \o
                  [i \in 1..Len(queries) |->
                      SerpQuery(NextId(serp_queries) + i - 1, p, queries[i])]
            /\ last' = [NoLast EXCEPT !.op = "add_queries", !.p = p]
    /\ UNCHANGED <<Tables, projects, running, project_id_seq>>

(***************************************************************************)
(* LeadsSerpService.save_queries_and_generate_urls: the queries are saved  *)
(* in a session of their own, then the URLs are resolved in another        *)
(***************************************************************************)
MaxSavedQueries == 2

\* the loop of _add_queries_to_table: one SerpQuery per query, no lookup
AddedQueries(Q, p, queries) ==
    Q \o [i \in 1..Len(queries) |-> SerpQuery(NextId(Q) + i - 1, p, queries[i])]

\* variant: one transaction for both steps, a failed resolution takes the
\* queries back
QueriesRolledBack(Q, added, resolved) == IF resolved THEN added ELSE Q

\* _add_queries_to_table has committed before _generate_and_add_urls_to_table
\* starts: the outcome of the resolution does not reach the saved queries
QueriesAfterCall(Q, added, resolved) == added

\* last.n0 is the number of SerpQuery rows the call met
save_queries_and_generate_urls(p, queries, answers) ==
    LET collected == CollectUrls(queries, answers, Answer(FALSE, <<>>))
        all_urls == collected.data
        resolved == /\ ~collected.raised
                    /\ ~BatchHasDuplicateLink(all_urls)
                    /\ ~ForeignKeyViolation(serp_urls, p, all_urls)
        done == [NoLast EXCEPT !.op = "save_queries", !.p = p, !.sel = queries,
                               !.outs = answers, !.n0 = Len(serp_queries)]
    IN  /\ Len(serp_queries) + Len(queries) <= MaxSavedQueries
        /\ IF p \notin ExistingProjects /\ queries # <<>>
           THEN /\ UNCHANGED <<serp_queries, serp_urls>>
                /\ last' = [done EXCEPT !.ok = FALSE]
           ELSE /\ serp_queries' =
                     QueriesAfterCall(serp_queries,
                                      AddedQueries(serp_queries, p, queries),
                                      resolved)
                /\ IF resolved
                   THEN /\ serp_urls' = UpsertAll(serp_urls, p, all_urls)
                        /\ last' = [done EXCEPT !.batch = all_urls]
                   ELSE /\ UNCHANGED serp_urls
                        /\ last' = [done EXCEPT !.ok = FALSE,
                                       !.batch = IF collected.raised THEN <<>>
                                                 ELSE all_urls]
        /\ UNCHANGED <<serp_leads, serp_leads_aggregated, merged_results,
                       enrichment_columns, datasets>>
        /\ UNCHANGED <<projects, running, project_id_seq>>

SaveQueries ==
    \E p \in ProjectIds, queries \in QueryLists :
      \E answers \in [Range(queries) -> SerpAnswers] :
        /\ \E i \in 1..Len(queries) : answers[queries[i]] # Answer(FALSE, <<>>)
        /\ save_queries_and_generate_urls(p, queries, answers)

NextSaveQueries == SaveQueries \/ ExtractRunFew

SpecSaveQueries == Init /\ [][NextSaveQueries]_vars

\* C38: every call of save_queries_and_generate_urls for an existing project
\* appends one SerpQuery row per query to the rows it met, whatever is stored
\* already and whatever the resolution does afterwards; when the resolution
\* fails, the call stores no CandidateURL and changes none.
C38_QueriesCommittedFirst ==
    [][(last'.op = "save_queries" /\ last'.p \in ExistingProjects) =>
          LET n == Len(last'.sel)
              n0 == Len(serp_queries)
          IN  /\ last'.n0 = n0
              /\ Len(serp_queries') = n0 + n
              /\ SubSeq(serp_queries', 1, n0) = serp_queries
              /\ \A i \in 1..n :
                    /\ serp_queries'[n0 + i].query = last'.sel[i]
                    /\ serp_queries'[n0 + i].project_id = last'.p
              /\ ~last'.ok => serp_urls' = serp_urls
      ]_vars

\* the call for project 1 with the query q1 has failed twice at the provider:
\* the query is stored twice and no CandidateURL is
C38_Witness ==
    /\ last.op = "save_queries" /\ ~last.ok /\ last.p = 1
    /\ last.sel = <<"q1">> /\ last.outs["q1"].raised
    /\ last.n0 = 1
    /\ Len(serp_queries) = 2
    /\ \A i \in 1..2 : serp_queries[i].query = "q1" /\ serp_queries[i].project_id = 1
    /\ serp_urls = <<>>

(***************************************************************************)
(* Specification of the projects: every operation that stores a row of a   *)
(* project, with projects created and deleted in between                   *)
(***************************************************************************)
\* the store before the first project is created
InitProject ==
    /\ serp_urls = <<>>
    /\ serp_leads = <<>>
    /\ serp_leads_aggregated = <<>>
    /\ merged_results = <<>>
    /\ enrichment_columns = {}
    /\ datasets = <<>>
    /\ last = NoLast
    /\ projects = <<>>
    /\ project_id_seq = 1
    /\ serp_queries = <<>>
    /\ running = <<>>

CreateProject == \E name \in ProjectNames : create_project(name)

DeleteProject == \E p \in ProjectKeys : delete_project(p)

AddQueries == \E p \in ProjectKeys : AddQueriesToTable(p, <<"q1">>)

\* the search side is run for the first project, files are loaded for the
\* first two, queries are stored and batches merged for all
ResolveOne == GenerateAndAddUrls(1, <<SerpResult("q1", "t1", "l1", "s1")>>)

ExtractRunProject ==
    \E outs \in OutcomeMaps(1, SeedOutcomes) : ExtractAndAddLeads(1, outs)

AggregateProject == AggregateLeads(1)

MergeSerpProject == merge_serp_leads(1)

\* each project's file is loaded once
UploadProject ==
    \E p \in {1, 2} : NotUploaded(p, colA) /\ upload_dataset(p, colA, fileOrica, "ok")

\* the caller names the project and the batch separately
MergeDatasetProject ==
    \E p \in ProjectKeys, b \in 1..Len(datasets) :
        merge_dataset_leads(p, b, datasets[b].enrichment_column)

NextProject ==
    CreateProject \/ DeleteProject \/ AddQueries \/ ResolveOne \/ ExtractRunProject
    \/ AggregateProject \/ MergeSerpProject \/ UploadProject \/ MergeDatasetProject

SpecProject == InitProject /\ [][NextProject]_vars

ChildProjects ==
    {serp_queries[i].project_id : i \in 1..Len(serp_queries)}
    \cup {serp_urls[i].project_id : i \in 1..Len(serp_urls)}
    \cup {serp_leads[i].project_id : i \in 1..Len(serp_leads)}
    \cup {serp_leads_aggregated[i].project_id : i \in 1..Len(serp_leads_aggregated)}
    \cup {datasets[i].project_id : i \in 1..Len(datasets)}
    \cup {merged_results[i].project_id : i \in 1..Len(merged_results)}

\* C28: after delete_project(P) has returned True no query, URL, extracted
\* lead, aggregated lead, dataset batch (with its rows) or merged result of P
\* is stored, and in every reachable state every child row references a
\* project that exists.
C28_DeleteCascades ==
    /\ (last.op = "delete_project" /\ last.ok) => last.p \notin ChildProjects
    /\ ChildProjects \subseteq ExistingProjects

\* a project with rows in all six child tables has been deleted
C28_Witness ==
    /\ last.op = "delete_project" /\ last.ok
    /\ Len(last.sel) = 6
    /\ ExistingProjects # {}
    /\ ChildProjects # {}

(***************************************************************************)
(* Overlapping resolver calls. Each call runs in a session of its own      *)
(* (READ COMMITTED). Its INSERT ... ON CONFLICT (link) DO UPDATE handles   *)
(* the rows of VALUES in order; handling a row takes the lock of the link  *)
(* (the new index entry, or the row it updates) until the transaction      *)
(* ends, and waits while another transaction in flight holds it. serp_urls *)
(* is the committed table: the rows a call has handled are locked until    *)
(* its commit, so its statement has the effect of UpsertAll on the table   *)
(* at the commit (keys are drawn at the commit here, at the insert in the  *)
(* store).                                                                 *)
(***************************************************************************)
\* bound: the resolver calls of a behaviour
MaxCalls == 2

Call(p, batch) == [op |-> "resolve", p |-> p, batch |-> batch, pos |-> 0,
                   state |-> "running"]

InFlight(c) == c \in 1..Len(running) /\ running[c].state = "running"

\* the links whose lock the call holds: those of the rows it has handled
LockedBy(c) ==
    IF InFlight(c)
    THEN {running[c].batch[k].link : k \in 1..running[c].pos}
    ELSE {}

\* the call in flight that holds the lock the call needs next (0: none)
WaitsFor(c) ==
    IF InFlight(c) /\ running[c].pos < Len(running[c].batch)
    THEN LET link == running[c].batch[running[c].pos + 1].link
             holders == {d \in 1..Len(running) : d # c /\ link \in LockedBy(d)}
         IN  IF holders = {} THEN 0 ELSE CHOOSE d \in holders : TRUE
    ELSE 0

RECURSIVE WaitChain(_, _)
\* the call reached from c by n steps of WaitsFor
WaitChain(c, n) ==
    IF n = 0 \/ c = 0 THEN c ELSE WaitChain(WaitsFor(c), n - 1)

Deadlocked(c) == \E n \in 1..Len(running) : WaitChain(c, n) = c

\* the call has collected its results and sends the statement
BeginResolve(p, batch) ==
    /\ Len(running) < MaxCalls
    /\ ~BatchHasDuplicateLink(batch)
    /\ running' = Append(running, Call(p, batch))
    /\ UNCHANGED <<Tables, last, projects, serp_queries, project_id_seq>>

\* the statement handles its next row
UpsertRow(c) ==
    /\ InFlight(c)
    /\ running[c].pos < Len(running[c].batch)
    /\ WaitsFor(c) = 0
    /\ running' = [running EXCEPT ![c].pos = @ + 1]
    /\ UNCHANGED <<Tables, last, projects, serp_queries, project_id_seq>>

\* session.execute has returned; session.commit()
CommitResolve(c) ==
    /\ InFlight(c)
    /\ running[c].pos = Len(running[c].batch)
    /\ serp_urls' = UpsertAll(serp_urls, running[c].p, running[c].batch)
    /\ running' = [running EXCEPT ![c].state = "done"]
    /\ last' = [NoLast EXCEPT !.op = "resolve", !.p = running[c].p,
                              !.batch = running[c].batch]
    /\ UNCHANGED <<serp_leads, serp_leads_aggregated, merged_results,
                   enrichment_columns, datasets, projects, serp_queries,
                   project_id_seq>>

\* the store ends a call of a cycle of waiting calls with "deadlock detected":
\* session.execute raises, the except branch of lines 191-196 raises again
\* and the session is closed without a commit
DeadlockDetected(c) ==
    /\ InFlight(c)
    /\ Deadlocked(c)
    /\ running' = [running EXCEPT ![c].state = "failed"]
    /\ last' = [NoLast EXCEPT !.op = "resolve", !.p = running[c].p, !.ok = FALSE,
                              !.batch = running[c].batch]
    /\ UNCHANGED <<Tables, projects, serp_queries, project_id_seq>>

(***************************************************************************)
(* Specification of overlapping resolver calls                             *)
(***************************************************************************)
\* two searches that return the same two links, in either order
OverlapBatches ==
    { <<SerpResult("q1", "t1", "l1", "s1"), SerpResult("q1", "t1", "l2", "s1")>>,
      <<SerpResult("q2", "t2", "l2", "s2"), SerpResult("q2", "t2", "l1", "s2")>>,
      <<SerpResult("q2", "t2", "l1", "s2"), SerpResult("q2", "t2", "l2", "s2")>>,
      <<SerpResult("q2", "t2", "l2", "s2")>> }

Begin == \E p \in ProjectIds, batch \in OverlapBatches : BeginResolve(p, batch)

Row == \E c \in 1..Len(running) : UpsertRow(c)

Commit == \E c \in 1..Len(running) : CommitResolve(c)

Abort == \E c \in 1..Len(running) : DeadlockDetected(c)

\* extraction runs while no resolver call is in flight
ExtractIdle == (\A c \in 1..Len(running) : ~InFlight(c)) /\ ExtractRunFew

NextOverlapResolve == Begin \/ Row \/ Commit \/ Abort \/ ExtractIdle

SpecOverlapResolve == Init /\ [][NextOverlapResolve]_vars

SharedLinks(c, d) ==
    {running[c].batch[k].link : k \in 1..Len(running[c].batch)}
    \cap {running[d].batch[k].link : k \in 1..Len(running[d].batch)}

RowsWithLink(l) == {i \in 1..Len(serp_urls) : serp_urls[i].link = l}

\* the call's result for the link gave the row its title and snippet
GaveTitle(c, i) ==
    \E k \in 1..Len(running[c].batch) :
        /\ running[c].batch[k].link = serp_urls[i].link
        /\ running[c].batch[k].title = serp_urls[i].title
        /\ running[c].batch[k].snippet = serp_urls[i].snippet

\* C25: the statement requires that of two resolver calls whose results share
\* links, however their steps interleave, neither fails, and that once both
\* have ended each shared link has exactly one row, with the title and
\* snippet of one of the two calls.
C25_AsStated ==
    \A c, d \in 1..Len(running) :
        (c # d /\ SharedLinks(c, d) # {}) =>
            /\ running[c].state # "failed"
            /\ (running[c].state = "done" /\ running[d].state = "done") =>
                  \A l \in SharedLinks(c, d) :
                      /\ Cardinality(RowsWithLink(l)) = 1
                      /\ \A i \in RowsWithLink(l) : GaveTitle(c, i) \/ GaveTitle(d, i)

(***************************************************************************)
(* Overlapping merges: merge_serp_leads(p) and merge_dataset_leads(p, b,   *)
(* col), each in a session of its own (READ COMMITTED, no autoflush).      *)
(* merged_results is the committed table. A call in flight keeps what it   *)
(* has written and not committed: the other call does not see it, and      *)
(* waits before it writes a row the call has written. A query sees the     *)
(* committed rows of its moment and the call's own flushed rows.           *)
(***************************************************************************)
MergeCall(op, p, b, col, todo, overlap) ==
    [op |-> op, p |-> p, b |-> b, col |-> col, state |-> "running", pc |-> "begin",
     todo |-> todo, start |-> merged_results, overlap |-> overlap,
     reset |-> {}, sets |-> <<>>, pending |-> <<>>, updates |-> <<>>,
     inserted |-> <<>>]

Started(op) == \E c \in 1..Len(running) : running[c].op = op

SomeInFlight == \E c \in 1..Len(running) : InFlight(c)

\* the ids of the committed rows whose lock the call holds: the rows of the
\* reset (merge_serp_leads) or of the UPDATE statements (merge_dataset_leads)
RowsLockedBy(c) ==
    IF InFlight(c)
    THEN running[c].reset \cup {running[c].updates[k][1] : k \in 1..Len(running[c].updates)}
    ELSE {}

LockedByOther(c, id) ==
    \E d \in 1..Len(running) : d # c /\ id \in RowsLockedBy(d)

\* the call in flight has touched merged_results, so holds a lock of the table
HoldsTableLock(c) == InFlight(c) /\ running[c].pc # "begin"

\* the next value of the key sequence of merged_results: an id is drawn when
\* the row is inserted, flushed or not yet committed
NextMergedId ==
    LET ids == {merged_results[i].id : i \in 1..Len(merged_results)}
               \cup UNION {{running[c].inserted[k].id : k \in 1..Len(running[c].inserted)} :
                             c \in 1..Len(running)}
    IN  IF ids = {} THEN 1 ELSE 1 + CHOOSE m \in ids : \A n \in ids : n <= m

KeepAllButMerge ==
    UNCHANGED <<serp_urls, serp_leads, serp_leads_aggregated, enrichment_columns,
                datasets, projects, serp_queries, project_id_seq>>

\* lines 89-93: the session opens and reads the aggregated leads
BeginMergeSerp(p) ==
    /\ ~Started("merge_serp")
    /\ running' = Append(running,
          MergeCall("merge_serp", p, 0, <<>>,
                    SelectSeq(serp_leads_aggregated, LAMBDA r : r.project_id = p),
                    SomeInFlight))
    /\ UNCHANGED <<Tables, last, projects, serp_queries, project_id_seq>>

\* lines 98-100 and 110-112: the UPDATE that resets the counts of the project
\* (executed at once, committed with the rest)
ResetStep(c) ==
    /\ InFlight(c) /\ running[c].op = "merge_serp" /\ running[c].pc = "begin"
    /\ \A i \in 1..Len(merged_results) :
          merged_results[i].project_id = running[c].p
              => ~LockedByOther(c, merged_results[i].id)
    /\ running' = [running EXCEPT
          ![c].pc = "loop",
          ![c].reset = {merged_results[i].id : i \in
                           {j \in 1..Len(merged_results) :
                               merged_results[j].project_id = running[c].p}}]
    /\ UNCHANGED <<Tables, last, projects, serp_queries, project_id_seq>>

\* lines 118-143: one aggregated lead; the count is set on the row found
\* (flushed at the commit) or a new row is added to the session
SerpLeadStep(c) ==
    /\ InFlight(c) /\ running[c].op = "merge_serp" /\ running[c].pc = "loop"
    /\ running[c].todo # <<>>
    /\ LET agg_lead == Head(running[c].todo)
           normalized_lead == normalize_lead_name(agg_lead.leads)
           existing == SerpFindExisting(merged_results, running[c].p, normalized_lead)
       IN  running' = [running EXCEPT
             ![c].todo = Tail(@),
             ![c].sets = IF normalized_lead # <<>> /\ existing # 0
                         THEN Append(@, <<merged_results[existing].id,
                                          agg_lead.serp_count>>)
                         ELSE @,
             ![c].pending = IF normalized_lead # <<>> /\ existing = 0
                            THEN Append(@, NewMergedResult(0, running[c].p,
                                               normalized_lead, agg_lead.serp_count))
                            ELSE @]
    /\ UNCHANGED <<Tables, last, projects, serp_queries, project_id_seq>>

RECURSIVE ApplySets(_, _)
\* UPDATE merged_results SET serp_count = ... WHERE id = ..., one per row set
ApplySets(T, sets) ==
    IF sets = <<>> THEN T
    ELSE ApplySets([i \in 1..Len(T) |->
                      IF T[i].id = Head(sets)[1]
                      THEN [T[i] EXCEPT !.serp_count = Head(sets)[2]]
                      ELSE T[i]],
                   Tail(sets))

RECURSIVE InsertPending(_, _, _)
InsertPending(T, pending, id) ==
    IF pending = <<>> THEN T
    ELSE InsertPending(Append(T, [Head(pending) EXCEPT !.id = id]), Tail(pending),
                       id + 1)

\* line 145: session.commit() flushes the counts and the new rows
CommitMergeSerp(c) ==
    /\ InFlight(c) /\ running[c].op = "merge_serp" /\ running[c].pc = "loop"
    /\ running[c].todo = <<>>
    /\ \A k \in 1..Len(running[c].sets) : ~LockedByOther(c, running[c].sets[k][1])
    /\ merged_results' =
          InsertPending(
            ApplySets([i \in 1..Len(merged_results) |->
                          IF merged_results[i].id \in running[c].reset
                          THEN [merged_results[i] EXCEPT !.serp_count = NoCount]
                          ELSE merged_results[i]],
                      running[c].sets),
            running[c].pending, NextMergedId)
    /\ running' = [running EXCEPT ![c].state = "done"]
    /\ last' = [NoLast EXCEPT !.op = "merge_serp", !.p = running[c].p]
    /\ KeepAllButMerge

\* lines 176-178: the column is ensured in a session of its own (ALTER TABLE
\* waits for every transaction that has touched the table); then lines
\* 180-184: the session opens and reads the rows of the batch
BeginMergeDataset(p, b, col) ==
    /\ ~Started("merge_dataset")
    /\ b \in 1..Len(datasets)
    /\ ValidColumn(col)
    /\ col \notin enrichment_columns
          => \A d \in 1..Len(running) : ~HoldsTableLock(d)
    /\ enrichment_columns' = enrichment_columns \cup {SanitizeColumn(col)}
    /\ running' = Append(running,
          [MergeCall("merge_dataset", p, b, SanitizeColumn(col), datasets[b].rows,
                     SomeInFlight) EXCEPT !.pc = "loop"])
    /\ UNCHANGED <<serp_urls, serp_leads, serp_leads_aggregated, merged_results,
                   datasets, last, projects, serp_queries, project_id_seq>>

\* lines 200-247: one row of the batch; the UPDATE and the flushed INSERT are
\* executed at once and committed with the rest
DatasetRowStep(c) ==
    /\ InFlight(c) /\ running[c].op = "merge_dataset"
    /\ running[c].todo # <<>>
    /\ LET r == running[c]
           normalized_lead == normalize_lead_name(Head(r.todo).lead)
           value == EnrichmentValue(Head(r.todo).enrichment_value)
           view == merged_results \o r.inserted
           existing == DatasetFindExisting(view, r.p, normalized_lead)
           own == existing - Len(merged_results)
       IN  IF normalized_lead = <<>>
           THEN running' = [running EXCEPT ![c].todo = Tail(@)]
           ELSE IF existing = 0
           THEN running' = [running EXCEPT
                  ![c].todo = Tail(@),
                  ![c].inserted = Append(@,
                      IF value = NULL
                      THEN NewMergedResult(NextMergedId, r.p, normalized_lead, 0)
                      ELSE WriteColumn(
                             NewMergedResult(NextMergedId, r.p, normalized_lead, 0),
                             r.col, value))]
           ELSE IF own > 0
           THEN running' = [running EXCEPT
                  ![c].todo = Tail(@),
                  ![c].inserted[own] = WriteColumn(@, r.col, value)]
           ELSE /\ ~LockedByOther(c, view[existing].id)
                /\ running' = [running EXCEPT
                      ![c].todo = Tail(@),
                      ![c].updates = Append(@, <<view[existing].id, value>>)]
    /\ UNCHANGED <<Tables, last, projects, serp_queries, project_id_seq>>

RECURSIVE ApplyUpdates(_, _, _)
ApplyUpdates(T, updates, col) ==
    IF updates = <<>> THEN T
    ELSE ApplyUpdates([i \in 1..Len(T) |->
                         IF T[i].id = Head(updates)[1]
                         THEN WriteColumn(T[i], col, Head(updates)[2])
                         ELSE T[i]],
                      Tail(updates), col)

\* line 249: session.commit()
CommitMergeDataset(c) ==
    /\ InFlight(c) /\ running[c].op = "merge_dataset"
    /\ running[c].todo = <<>>
    /\ merged_results' =
          ApplyUpdates(merged_results, running[c].updates, running[c].col)
          \o running[c].inserted
    /\ running' = [running EXCEPT ![c].state = "done"]
    /\ last' = [NoLast EXCEPT !.op = "merge_dataset", !.p = running[c].p,
                              !.b = running[c].b, !.col = running[c].col]
    /\ KeepAllButMerge

(***************************************************************************)
(* Specification of overlapping merges: the store is filled by calls that  *)
(* run alone, then one SERP merge and one dataset merge of project 1 run,  *)
(* their steps in any order                                                *)
(***************************************************************************)
Alone == running = <<>>

SetUp ==
    Alone /\ (ResolveBoth \/ ExtractRunSeed \/ AggregateSeed \/ MergeSerpSeed)

SetUpDataset ==
    /\ Alone
    /\ \/ NotUploaded(1, colA) /\ upload_dataset(1, colA, fileOrica, "ok")
       \/ \E b \in 1..Len(datasets) :
             merge_dataset_leads(1, b, datasets[b].enrichment_column)

BeginSerp == serp_leads_aggregated # <<>> /\ BeginMergeSerp(1)

BeginDataset ==
    \E b \in 1..Len(datasets) :
        BeginMergeDataset(1, b, datasets[b].enrichment_column)

SerpStep ==
    \E c \in 1..Len(running) : ResetStep(c) \/ SerpLeadStep(c) \/ CommitMergeSerp(c)

DatasetStep ==
    \E c \in 1..Len(running) : DatasetRowStep(c) \/ CommitMergeDataset(c)

NextOverlapMerge ==
    SetUp \/ SetUpDataset \/ BeginSerp \/ BeginDataset \/ SerpStep \/ DatasetStep

SpecOverlapMerge == Init /\ [][NextOverlapMerge]_vars

BothMergesDone ==
    /\ Len(running) = 2
    /\ \A c \in 1..2 : running[c].state = "done"

\* the second call began while the first was in flight
Overlapped == running[2].overlap

\* the table without ids and row order: the rows with their multiplicity
RowContent(r) ==
    [project_id |-> r.project_id, lead |-> r.lead, serp_count |-> r.serp_count,
     cols |-> r.cols]

Multiplicity(T, x) == Cardinality({i \in 1..Len(T) : RowContent(T[i]) = x})

SameContent(T, U) ==
    /\ Len(T) = Len(U)
    /\ \A i \in 1..Len(T) :
          Multiplicity(T, RowContent(T[i])) = Multiplicity(U, RowContent(T[i]))

CallOf(op) == CHOOSE c \in 1..Len(running) : running[c].op = op

\* merge_serp_leads, then merge_dataset_leads, each alone, from the table the
\* first call met
SerialSerpFirst ==
    LET d == running[CallOf("merge_dataset")]
    IN  MergeDatasetLoop(
          MergeSerpResult(running[1].start, serp_leads_aggregated, d.p),
          datasets[d.b].rows, d.p, d.col)

SerialDatasetFirst ==
    LET d == running[CallOf("merge_dataset")]
    IN  MergeSerpResult(
          MergeDatasetLoop(running[1].start, datasets[d.b].rows, d.p, d.col),
          serp_leads_aggregated, d.p)

IsSerialOutcome ==
    \/ SameContent(merged_results, SerialSerpFirst)
    \/ SameContent(merged_results, SerialDatasetFirst)

TwoRowsForLead ==
    \E i, j \in 1..Len(merged_results) :
        /\ i # j
        /\ merged_results[i].project_id = merged_results[j].project_id
        /\ merged_results[i].lead = merged_results[j].lead

\* C26: merge_serp_leads(P) and merge_dataset_leads(P, ...) that overlap are
\* not safe. When both have ended: if the calls did not overlap, the table is
\* that of one of the two serial orders; a table with two rows for the same
\* (project, lead) comes only from calls that overlapped and is the table of
\* neither serial order. The witness is such an outcome.
C26_OverlapUnsafe ==
    BothMergesDone =>
        /\ ~Overlapped => IsSerialOutcome
        /\ TwoRowsForLead => (Overlapped /\ ~IsSerialOutcome)

\* both calls have ended and left two rows for "acme" of project 1, one with
\* the count and one with the dataset value
C26_Witness ==
    /\ BothMergesDone
    /\ ~IsSerialOutcome
    /\ \E i, j \in 1..Len(merged_results) :
          /\ i # j
          /\ merged_results[i].lead = <<"a", "c", "m", "e">>
          /\ merged_results[j].lead = <<"a", "c", "m", "e">>
          /\ merged_results[i].serp_count = 2
          /\ merged_results[j].cols[colA] # NULL

\* the two merges of project p with batch b, one at a time, in either order
SerpThenDataset(T, p, b) ==
    MergeDatasetLoop(MergeSerpResult(T, serp_leads_aggregated, p),
                     datasets[b].rows, p, SanitizeColumn(datasets[b].enrichment_column))

DatasetThenSerp(T, p, b) ==
    MergeSerpResult(
        MergeDatasetLoop(T, datasets[b].rows, p,
                         SanitizeColumn(datasets[b].enrichment_column)),
        serp_leads_aggregated, p)

\* C35: the statement requires that for every table the merges can meet,
\* merge_serp_leads followed by merge_dataset_leads leaves the same rows as
\* the opposite order (compared without ids and row order), so also the same
\* count for a lead that only the dataset names.
C35_AsStated ==
    \A b \in 1..Len(datasets) :
        LET p == datasets[b].project_id
            col == datasets[b].enrichment_column
        IN  (ValidColumn(col) /\ ~MergeDatasetFails(datasets[b].rows, col)) =>
                SameContent(SerpThenDataset(merged_results, p, b),
                            DatasetThenSerp(merged_results, p, b))

(***************************************************************************)
(* An extraction run URL by URL: the session keeps the changes of the URLs *)
(* handled so far (se); serp_urls and serp_leads are the committed tables. *)
(* The run can end at its commit, which succeeds or raises, or between two *)
(* URLs (the process is stopped, the connection is closed).                *)
(***************************************************************************)
Run(p, sel, outs) ==
    [op |-> "extract", p |-> p, sel |-> sel, outs |-> outs, pos |-> 0,
     state |-> "running",
     start |-> [urls |-> serp_urls, leads |-> serp_leads],
     se |-> [urls |-> serp_urls, leads |-> serp_leads, processed |-> 0,
             skipped |-> 0, failed |-> 0, new_leads |-> 0]]

NoRunInFlight == running = <<>> \/ ~InFlight(1)

\* variant: the session commits after every URL
CommitEachUrl(store, se) == [urls |-> se.urls, leads |-> se.leads]

\* the committed tables after a URL was handled: the loop of lines 315-391 has
\* no commit and no flush
VisibleStore(store, se) == store

\* lines 288-312: the session opens and selects the URLs
BeginExtract(p, outs) ==
    /\ NoRunInFlight
    /\ SelectIds(serp_urls, p) # <<>>
    /\ DOMAIN outs = Range(SelectIds(serp_urls, p))
    /\ running' = <<Run(p, SelectIds(serp_urls, p), outs)>>
    /\ UNCHANGED <<Tables, last, projects, serp_queries, project_id_seq>>

\* lines 315-391: one iteration of the loop
HandleNextUrl ==
    /\ running # <<>> /\ InFlight(1)
    /\ running[1].pos < Len(running[1].sel)
    /\ LET r == running[1]
           id == r.sel[r.pos + 1]
           se == HandleUrl(r.se, r.p, id, r.outs[id])
           vis == VisibleStore([urls |-> serp_urls, leads |-> serp_leads], se)
       IN  /\ Len(se.leads) <= MaxLeadRows
           /\ running' = [running EXCEPT ![1].pos = @ + 1, ![1].se = se]
           /\ serp_urls' = vis.urls
           /\ serp_leads' = vis.leads
    /\ UNCHANGED <<serp_leads_aggregated, merged_results, enrichment_columns,
                   datasets, last, projects, serp_queries, project_id_seq>>

\* line 393: session.commit() succeeds; lines 402-410: the result
CommitRun ==
    /\ running # <<>> /\ InFlight(1)
    /\ running[1].pos = Len(running[1].sel)
    /\ serp_urls' = running[1].se.urls
    /\ serp_leads' = running[1].se.leads
    /\ running' = [running EXCEPT ![1].state = "done"]
    /\ last' = [NoLast EXCEPT !.op = "extract", !.p = running[1].p,
                              !.sel = running[1].sel, !.outs = running[1].outs,
                              !.n0 = Len(serp_leads),
                              !.res = RunResult(running[1].se, Len(running[1].sel))]
    /\ UNCHANGED <<serp_leads_aggregated, merged_results, enrichment_columns,
                   datasets, projects, serp_queries, project_id_seq>>

\* the run ends without a commit: session.commit() raises (the with block
\* closes the session, lines 412-417 raise again), or the run is stopped
\* between two URLs; the store rolls the transaction back
EndWithoutCommit ==
    /\ running # <<>> /\ InFlight(1)
    /\ running' = [running EXCEPT ![1].state = "failed"]
    /\ last' = [NoLast EXCEPT !.op = "extract", !.p = running[1].p, !.ok = FALSE,
                              !.sel = running[1].sel, !.n0 = Len(serp_leads)]
    /\ UNCHANGED <<Tables, projects, serp_queries, project_id_seq>>

(***************************************************************************)
(* Specification of the extraction run taken URL by URL                    *)
(***************************************************************************)
StepOutcomes ==
    FewOutcomes \cup { Outcome("save", TRUE, <<sAcme, sACME>>, "page", 1) }

\* the URLs and the runs of project 1
ResolveIdle ==
    /\ NoRunInFlight
    /\ \E batch \in BatchesOf(FixedResults) :
          ~BatchHasDuplicateLink(batch) /\ GenerateAndAddUrls(1, batch)

BeginRun == \E outs \in OutcomeMaps(1, StepOutcomes) : BeginExtract(1, outs)

NextRunSteps ==
    ResolveIdle \/ BeginRun \/ HandleNextUrl \/ CommitRun \/ EndWithoutCommit

SpecRunSteps == Init /\ [][NextRunSteps]_vars

\* C32: a run makes its effects visible with the one commit at its end. While
\* it is in flight the committed tables are those it met, and when it ends
\* without a commit (the commit raises, or it is stopped between URLs) they
\* still are: no status, fetched text or lead row of the run is stored and
\* every URL the run selected is selected by the next run.
C32_OneCommit ==
    [][(running # <<>> /\ InFlight(1)) =>
          IF running'[1].state = "done"
          THEN /\ serp_urls' = running[1].se.urls
               /\ serp_leads' = running[1].se.leads
          ELSE /\ serp_urls' = running[1].start.urls
               /\ serp_leads' = running[1].start.leads
               /\ running'[1].state = "failed"
                     => SelectIds(serp_urls', running[1].p) = running[1].sel]_vars

\* a run was stopped after its first URL, for which it held a new status and a
\* lead row, and before its second
C32_Witness ==
    /\ running # <<>>
    /\ running[1].state = "failed"
    /\ running[1].pos = 1 /\ Len(running[1].sel) = 2
    /\ running[1].se.urls # serp_urls
    /\ running[1].se.leads # serp_leads
    /\ last.op = "extract" /\ ~last.ok

(***************************************************************************)
(* Specification of the normalizer: normalize_lead_name applied to names   *)
(* and to variants of them                                                 *)
(***************************************************************************)
\* a name is a concatenation of at most MaxPieces of these pieces
MaxPieces == 3

sMicrosoft == <<"M", "i", "c", "r", "o", "s", "o", "f", "t">>

sMICROSOFT == <<"M", "I", "C", "R", "O", "S", "O", "F", "T">>

sMicrosoftPtyLtd == sMicrosoft \o <<" ", "P", "t", "y", " ", "L", "t", "d">>

\* the key both names of the example are expected to have
keyMicrosoft == <<"m", "i", "c", "r", "o", "s", "o", "f", "t">>

NamePieces ==
    { sMicrosoft, sMICROSOFT, <<" ", "P", "t", "y">>, <<" ", "L", "t", "d">>,
      <<"C", "o">>, <<" ">>, <<".">>, <<"zwsp">> }

RECURSIVE Concat(_)
Concat(ps) == IF ps = <<>> THEN <<>> ELSE Head(ps) \o Concat(Tail(ps))

Names == {Concat(ps) : ps \in UNION {[1..n -> NamePieces] : n \in 0..MaxPieces}}

Punctuation == {".", "-"}

UpperChar(c) ==
    IF \E i \in 1..Len(LowerChars) : LowerChars[i] = c
    THEN UpperChars[CHOOSE i \in 1..Len(LowerChars) : LowerChars[i] = c]
    ELSE c

UpperAll(s) == [i \in 1..Len(s) |-> UpperChar(s[i])]

InsertAt(s, i, c) == SubSeq(s, 1, i) \o <<c>> \o SubSeq(s, i + 1, Len(s))

\* position i (between s[i] and s[i+1]) is at an end of s or next to whitespace
\* or punctuation
AtWordEdge(s, i) ==
    \/ i = 0 \/ i = Len(s)
    \/ s[i] \in Whitespace \cup Punctuation
    \/ s[i + 1] \in Whitespace \cup Punctuation

\* position i is at an end of s or next to whitespace
AtSpaceEdge(s, i) ==
    \/ i = 0 \/ i = Len(s)
    \/ s[i] \in Whitespace
    \/ s[i + 1] \in Whitespace

\* the state after normalize_lead_name was applied to text, and again to its
\* result: sel the text, res the key, outs the key of the key, batch the key of
\* the name the text was derived from
Normalized(op, text, from) ==
    [NoLast EXCEPT !.op = op, !.sel = text,
                   !.res = normalize_lead_name(text),
                   !.outs = normalize_lead_name(normalize_lead_name(text)),
                   !.batch = from]

NoTables ==
    /\ serp_urls = <<>>
    /\ serp_leads = <<>>
    /\ serp_leads_aggregated = <<>>
    /\ merged_results = <<>>
    /\ enrichment_columns = {}
    /\ datasets = <<>>
    /\ projects = <<>>
    /\ project_id_seq = 1
    /\ serp_queries = <<>>
    /\ running = <<>>

InitNormalize ==
    /\ NoTables
    /\ \E name \in Names : last = [NoLast EXCEPT !.op = "name", !.sel = name]

KeepTables ==
    UNCHANGED <<serp_urls, serp_leads, serp_leads_aggregated, merged_results,
                enrichment_columns, datasets, projects, serp_queries, running,
                project_id_seq>>

Normalize ==
    /\ last.op = "name"
    /\ last' = Normalized("normalize", last.sel, normalize_lead_name(last.sel))
    /\ KeepTables

\* the same name in another letter case
VaryCase ==
    /\ last.op = "normalize"
    /\ \E t \in {UpperAll(last.sel), [i \in 1..Len(last.sel) |-> LowerChar(last.sel[i])]} :
          last' = Normalized("case", t, last.res)
    /\ KeepTables

\* the same name with one more space at an end or next to whitespace
VarySpace ==
    /\ last.op = "normalize"
    /\ \E i \in {j \in 0..Len(last.sel) : AtSpaceEdge(last.sel, j)} :
          last' = Normalized("space", InsertAt(last.sel, i, " "), last.res)
    /\ KeepTables

\* the same name with one more punctuation character at a word edge
VaryPunctEdge ==
    /\ last.op = "normalize"
    /\ \E i \in {j \in 0..Len(last.sel) : AtWordEdge(last.sel, j)}, c \in Punctuation :
          last' = Normalized("punct_edge", InsertAt(last.sel, i, c), last.res)
    /\ KeepTables

\* the same name with one more punctuation character anywhere else
VaryPunctInside ==
    /\ last.op = "normalize"
    /\ \E i \in {j \in 0..Len(last.sel) : ~AtWordEdge(last.sel, j)}, c \in Punctuation :
          last' = Normalized("punct_inside", InsertAt(last.sel, i, c), last.res)
    /\ KeepTables

\* the same name with a legal suffix or generic term added as a word
VarySuffix ==
    /\ last.op = "normalize"
    /\ \E w \in {<<"L", "t", "d">>, <<"c", "o", "r", "p">>,
                  <<"H", "o", "l", "d", "i", "n", "g", "s">>} :
          \E t \in {last.sel \o <<" ">> \o w, w \o <<" ">> \o last.sel} :
              last' = Normalized("suffix", t, last.res)
    /\ KeepTables

NextNormalize ==
    Normalize \/ VaryCase \/ VarySpace \/ VaryPunctEdge \/ VaryPunctInside
    \/ VarySuffix

SpecNormalize == InitNormalize /\ [][NextNormalize]_vars

(***************************************************************************)
(* Properties of the normalizer                                            *)
(***************************************************************************)
NormalizeApplied ==
    last.op \in {"normalize", "case", "space", "punct_edge", "punct_inside", "suffix"}

\* C19: normalize_lead_name is idempotent: applied to the key of any name it
\* returns that key.
C19_NormalizeIdempotent == NormalizeApplied => last.outs = last.res

\* "Microsoft Pty Ltd" was normalized to "microsoft", which a second
\* application returns unchanged
C19_Witness ==
    /\ last.op = "normalize"
    /\ last.sel = sMicrosoftPtyLtd
    /\ last.res = keyMicrosoft
    /\ last.outs = keyMicrosoft

AllWhitespace(s) == \A i \in 1..Len(s) : s[i] \in Whitespace

\* the two names of the example have one key; empty and whitespace-only names
\* have the empty key
ExampleKeys ==
    NormalizeApplied =>
        /\ last.sel \in {sMicrosoftPtyLtd, sMICROSOFT} => last.res = keyMicrosoft
        /\ AllWhitespace(last.sel) => last.res = <<>>

====
